---------------------------- MODULE Spec2Model ----------------------------
(***************************************************************************)
(* A model of the RusTracer rendering engine: the serial and the band-     *)
(* parallel render loops of the camera, the recursive shading of the       *)
(* world, the world queries and the refraction container walk.             *)
(*                                                                         *)
(* Real-valued quantities (t values, distances, refractive indices) are    *)
(* modelled by integers; refractive indices are scaled by ten (1.0 is 10). *)
(***************************************************************************)
EXTENDS Integers, Sequences, FiniteSets, TLC

VARIABLES
    \* ---- camera.rs: the camera and the two renders ----
    hsize,        \* Camera.hsize
    vsize,        \* Camera.vsize
    image,        \* the canvas of Camera::render
    serialState,  \* "idle" | "done"
    image2,       \* the canvas of Camera::render_par_headless
    bandPos,      \* per band worker: the next iteration (row * hsize + col) of its loops
    bandState,    \* per band worker: "idle" | "running" | "done" | "panicked"
    writes,       \* per canvas index: the workers that wrote it, in order
    computed,     \* the <<worker, col, row>> for which a worker called color_at
    parState,     \* "running" | "done" | "aborted"
    scene,        \* the World and the transforms a render works on
    scratch,      \* the private copies of the objects made by the last intersect_world
    \* ---- world.rs: prepare_computations_v2, the container walk ----
    xs,           \* intersection_list: a sequence of [t, object]
    hit,          \* intersection: the chosen hit
    walkPos,      \* the index in xs of the element the loop handles next
    container,    \* container: the objects entered and not yet exited
    n1,           \* comps.n1 (scaled by ten)
    n2,           \* comps.n2 (scaled by ten)
    walkState,    \* "walking" | "done"
    \* ---- world.rs / refraction.rs: color_at and its recursion ----
    lights,       \* World.light_sources.len()
    depth0,       \* remaining_calculations of the outermost color_at
    stack,        \* the nested color_at calls, outermost first
    result,       \* what the outermost color_at returned
    traceState,   \* "running" | "done"
    \* ---- ray.rs / world.rs: the queries on intersections ----
    call,         \* the function called and its arguments
    ret,          \* <<>> while the call is pending, then <<value returned>>
    \* ---- matrix.rs: the process-wide cache of inverses ----
    cache,        \* the inverse stored for each matrix looked up so far
    workers       \* each render worker's lookup: position, matrix, value, lookups left

renderVars == <<hsize, vsize, image, serialState, image2, bandPos, bandState,
                writes, computed, parState, scene, scratch>>

refrVars == <<xs, hit, walkPos, container, n1, n2, walkState>>

traceVars == <<lights, depth0, stack, result, traceState>>

queryVars == <<call, ret>>

cacheVars == <<cache, workers>>

vars == <<renderVars, refrVars, traceVars, queryVars, cacheVars>>

----------------------------------------------------------------------------
\* Bounds of the model.
MaxHsize == 2
MaxVsize == 20
MaxObjects == 3
MaxLights == 1
MaxDepth == 3
MaxWorldObjects == 2
MaxT == 2
MaxCoord == 1
MaxWorkers == 2
MaxLookups == 2
MaxCos == 4

\* Program constants.
BAND_SIZE == 10
BLACK == 0
MAX_RECURTION == 5

----------------------------------------------------------------------------
\* canvas.rs

\* Mutant of IndexFromPos: the index is column-major.
IndexFromPosByColumn(x, y, width) == (x * width) + y

IndexFromPos(x, y, width) == (y * width) + x

NewCanvas(width, height) ==
    [width |-> width, height |-> height,
     pixels |-> [i \in 0..(width * height - 1) |-> BLACK]]

SetPixelColor(canvas, x_pos, y_pos, color) ==
    [canvas EXCEPT !.pixels[IndexFromPos(x_pos, y_pos, canvas.width)] = color]

----------------------------------------------------------------------------
\* camera.rs

\* Camera::color_at(world, col, row): the colour the (immutable) world gives the
\* ray through pixel (col, row).  The tracer is deterministic, so the colour is a
\* function of the pixel; distinct pixels get distinct non-black colours so that
\* a misplaced write shows in the canvas.
CameraColorAt(col, row) == 1 + col + row * (MaxHsize + 2)

\* The scenes with one of the given kinds of singular transform: the camera's,
\* that of the first object, or that of a pattern.  patternAt is the canvas
\* index of the one pixel whose shading evaluates the pattern (none when it is
\* not a pixel: no ray hits the patterned object, or the world has no light);
\* a scene without singular transform has no pattern.  saved_ray is the state
\* of a ShapeTest.
Scenes(pixels, singular) ==
    [singular : singular,
     patternAt : IF singular = {"none"} THEN {0 - 1} ELSE (0 - 1)..(pixels - 1),
     objects : {<<[shape |-> "ShapeTest", saved_ray |-> 0], [shape |-> "Sphere"]>>}]

\* Camera::ray_for_pixel: the ray through a pixel, named by a number.
RayForPixel(col, row) == 1 + col + row * hsize

\* object.clone().intersect(ray) for each object of the world: intersect works on
\* a copy of the object, and a ShapeTest saves the ray in it.
Clones(objects, ray) ==
    [k \in DOMAIN objects |->
        IF objects[k].shape = "ShapeTest"
        THEN [objects[k] EXCEPT !.saved_ray = ray]
        ELSE objects[k]]

\* Mutant of WorldAfter: intersect works on the objects of the world themselves.
WorldAfterInPlace(objects, clones) == clones

\* The objects of the world once intersect_world has returned: the copies are
\* dropped.
WorldAfter(objects, clones) == objects

\* Mutant of Unwraps: a missing inverse of a pattern transform is passed over.
UnwrapsButPattern(col, row) == scene.singular \in {"camera", "object"}

\* Whether computing pixel (col, row) unwraps the inverse of a singular
\* transform: memoized_inverse(..).unwrap() in ray_for_pixel for the camera, in
\* local_intersect for every object of the world, in color_at_object for the
\* pattern of the object that is lit.
Unwraps(col, row) ==
    \/ scene.singular \in {"camera", "object"}
    \/ scene.singular = "pattern" /\ scene.patternAt = col + row * hsize

\* Camera::color_at for one pixel: a panic or a colour, and the copies of the
\* objects intersect_world has made (none before a panic of the camera's or
\* of the first object's unwrap).
Pixel(col, row) ==
    [panic |-> Unwraps(col, row),
     color |-> CameraColorAt(col, row),
     clones |-> IF scene.singular \in {"camera", "object"} THEN scratch
                ELSE Clones(scene.objects, RayForPixel(col, row))]

\* The loops of Camera::render up to canvas index `last` (included).
RECURSIVE RenderUpTo(_, _)
RenderUpTo(canvas, last) ==
    IF last < 0 THEN canvas
    ELSE SetPixelColor(RenderUpTo(canvas, last - 1), last % hsize, last \div hsize,
                       CameraColorAt(last % hsize, last \div hsize))

\* Camera::render: the serial render, both loops, up to the first pixel that
\* panics; the canvas is returned when no pixel does.
Render ==
    /\ serialState = "idle"
    /\ LET failing == {k \in 0..(hsize * vsize - 1) : Unwraps(k % hsize, k \div hsize)}
           last == IF failing = {} THEN hsize * vsize - 1
                   ELSE CHOOSE k \in failing : \A j \in failing : k <= j
       IN  /\ image' = RenderUpTo(NewCanvas(hsize, vsize),
                                  IF failing = {} THEN last ELSE last - 1)
           /\ serialState' = IF failing = {} THEN "done" ELSE "panicked"
           /\ scratch' = Pixel(last % hsize, last \div hsize).clones
           /\ scene' = [scene EXCEPT !.objects = WorldAfter(@, scratch')]
    /\ UNCHANGED <<hsize, vsize, image2, bandPos, bandState, writes, computed, parState>>
    /\ UNCHANGED <<refrVars, traceVars, queryVars, cacheVars>>

\* par_chunks_mut(self.hsize * BAND_SIZE) over the pixel buffer: the chunks.
ChunkSize == hsize * BAND_SIZE
NumBands == (hsize * vsize + ChunkSize - 1) \div ChunkSize
Bands == 0..(NumBands - 1)
BandStart(i) == i * ChunkSize
BandLen(i) ==
    IF (i + 1) * ChunkSize <= hsize * vsize THEN ChunkSize
    ELSE hsize * vsize - i * ChunkSize

\* One iteration of the closure's loops for band i: the colour is computed
\* first (the right-hand side of the assignment), then band[row*hsize+col] is
\* indexed, which panics when the index is outside the band's slice.
BandWrite(i, row, col) ==
    LET pixel == Pixel(col, row + i * BAND_SIZE)
        color == pixel.color
        idx   == row * hsize + col
    IN  /\ computed' = computed \cup {<<i, col, row + i * BAND_SIZE>>}
        /\ scratch' = pixel.clones
        /\ scene' = [scene EXCEPT !.objects = WorldAfter(@, scratch')]
        /\ IF ~pixel.panic /\ idx < BandLen(i)
           THEN /\ image2' = [image2 EXCEPT !.pixels[BandStart(i) + idx] = color]
                /\ writes' = [writes EXCEPT ![BandStart(i) + idx] = Append(@, i)]
                /\ bandPos' = [bandPos EXCEPT ![i] = @ + 1]
                /\ bandState' = [bandState EXCEPT ![i] =
                        IF bandPos[i] + 1 = BAND_SIZE * hsize THEN "done" ELSE "running"]
           ELSE /\ bandState' = [bandState EXCEPT ![i] = "panicked"]
                /\ UNCHANGED <<image2, writes, bandPos>>

BandStep(i) ==
    /\ parState = "running"
    /\ bandState[i] \in {"idle", "running"}
    /\ bandPos[i] < BAND_SIZE * hsize
    /\ BandWrite(i, bandPos[i] \div hsize, bandPos[i] % hsize)
    /\ UNCHANGED <<hsize, vsize, image, serialState, parState>>
    /\ UNCHANGED <<refrVars, traceVars, queryVars, cacheVars>>

\* for_each returns when every band is done; a panic of a band is resumed in the
\* caller once no band is still running (bands not yet started may never run).
ParJoin ==
    /\ parState = "running"
    /\ \/ /\ \A i \in Bands : bandState[i] = "done"
          /\ parState' = "done"
       \/ /\ \E i \in Bands : bandState[i] = "panicked"
          /\ \A i \in Bands : bandState[i] # "running"
          /\ parState' = "aborted"
    /\ UNCHANGED <<hsize, vsize, image, serialState, image2, bandPos, bandState,
                   writes, computed, scene, scratch>>
    /\ UNCHANGED <<refrVars, traceVars, queryVars, cacheVars>>

CameraInit(hs, vs, singular) ==
    /\ hsize \in hs
    /\ vsize \in vs
    /\ scene \in Scenes(hsize * vsize, singular)
    /\ scratch = <<>>
    /\ image = NewCanvas(hsize, vsize)
    /\ serialState = "idle"
    /\ image2 = NewCanvas(hsize, vsize)
    /\ bandPos = [i \in Bands |-> 0]
    /\ bandState = [i \in Bands |-> "idle"]
    /\ writes = [k \in 0..(hsize * vsize - 1) |-> <<>>]
    /\ computed = {}
    /\ parState = "running"

NextRender ==
    \/ Render
    \/ \E i \in Bands : BandStep(i)
    \/ ParJoin

----------------------------------------------------------------------------
\* world.rs: prepare_computations_v2

Objects == 1..MaxObjects

\* Object.material.refractive_index, scaled by ten: the glass spheres A, B, C
\* of refraction_at_intersection have 1.5, 2.0 and 2.5.
RefractiveIndex(o) == 10 + 5 * o

\* Vec::iter().position(|n| *n == object)
Position(c, o) ==
    IF \E k \in DOMAIN c : c[k] = o
    THEN CHOOSE k \in DOMAIN c : c[k] = o /\ \A j \in 1..(k - 1) : c[j] # o
    ELSE 0

\* Vec::remove(x)
Remove(c, x) == [k \in 1..(Len(c) - 1) |-> IF k < x THEN c[k] ELSE c[k + 1]]

\* Mutant of ContainerIndex: the first (outermost) object instead of the last.
ContainerIndexFirst(c) == IF c = <<>> THEN 10 ELSE RefractiveIndex(c[1])

\* container.is_empty() ? 1.0 : container.last().material.refractive_index
ContainerIndex(c) == IF c = <<>> THEN 10 ELSE RefractiveIndex(c[Len(c)])

\* Mutant of Toggle: the object is pushed whether or not it is in the container.
TogglePush(c, o) == Append(c, o)

\* The match on find_item: the object leaves the container or enters it.
Toggle(c, o) == IF Position(c, o) # 0 THEN Remove(c, Position(c, o)) ELSE Append(c, o)

\* One iteration of `for i in intersection_list`.
WalkStep ==
    /\ walkState = "walking"
    /\ walkPos <= Len(xs)
    /\ LET i      == xs[walkPos]
           is_hit == (i = hit)
           after  == Toggle(container, i.object)
       IN  /\ n1' = IF is_hit THEN ContainerIndex(container) ELSE n1
           /\ container' = after
           /\ n2' = IF is_hit THEN ContainerIndex(after) ELSE n2
           /\ walkState' = IF is_hit \/ walkPos = Len(xs) THEN "done" ELSE "walking"
           /\ walkPos' = walkPos + 1
    /\ UNCHANGED <<xs, hit>>
    /\ UNCHANGED <<renderVars, traceVars, queryVars, cacheVars>>

\* The intersection lists in which every object occurs as an entry/exit pair or
\* not at all, by ascending t; with `tangent` the two intersections of a pair
\* that are adjacent in the list share their t (a ray tangent to the sphere).
Occurrences(s, o) == Cardinality({k \in DOMAIN s : s[k] = o})

PairOrders ==
    UNION { {s \in [1..(2 * n) -> Objects] :
                \A o \in Objects : Occurrences(s, o) \in {0, 2}} : n \in 1..MaxObjects }

TimeOf(s, k, tangent) ==
    IF tangent /\ k > 1 /\ s[k - 1] = s[k] THEN k - 1 ELSE k

IntersectionList(s, tangent) ==
    [k \in DOMAIN s |-> [t |-> TimeOf(s, k, tangent), object |-> s[k]]]

\* The walk starts with an empty container; Computation::new sets n1 = n2 = 0.0.
WalkInit(lists) ==
    /\ xs \in lists
    /\ hit \in {xs[k] : k \in DOMAIN xs}
    /\ walkPos = 1
    /\ container = <<>>
    /\ n1 = 0
    /\ n2 = 0
    /\ walkState = "walking"

----------------------------------------------------------------------------
\* world.rs, refraction.rs: color_at, shade_hit, reflected_color, refracted_color
\*
\* A colour is modelled by whether it is BLACK (0) or not (LIT, 1); the sum of
\* colours is black when both are, a colour times a coefficient is black when
\* either is zero.  reflective and transparency are 0 or 1 (positive).  What a
\* ray meets (nothing, or a surface of some material; total internal
\* reflection or not) is chosen at each call.

LIT == BLACK + 1

ColorAdd(a, b) == IF a = BLACK /\ b = BLACK THEN BLACK ELSE LIT

ColorMul(c, k) == IF k = 0 THEN BLACK ELSE c

Materials == [reflective : {0, 1}, transparency : {0, 1}]

\* A call of color_at(ray, remaining) that has not looked at the world yet.
ColorAtCall(remaining) ==
    [remaining |-> remaining, phase |-> "color_at", reflective |-> 0,
     transparency |-> 0, light |-> 1, shade |-> BLACK, reflected |-> BLACK,
     refracted |-> BLACK]

Top == stack[Len(stack)]

SetTop(f) == [stack EXCEPT ![Len(stack)] = f]

\* The call on top of the stack returns colour c: to the caller of the
\* outermost color_at, or into the reflected_color / refracted_color of the
\* shade_hit that issued the secondary ray, which scales it.
Return(c) ==
    IF Len(stack) = 1
    THEN /\ stack' = <<>>
         /\ result' = c
         /\ traceState' = "done"
    ELSE LET caller == stack[Len(stack) - 1]
             resumed ==
                IF caller.phase = "reflect_wait"
                THEN [caller EXCEPT !.reflected = ColorMul(c, caller.reflective),
                                    !.phase = "refracted_color"]
                ELSE [caller EXCEPT !.refracted = ColorMul(c, caller.transparency),
                                    !.phase = "combine"]
         IN  /\ stack' = SubSeq(stack, 1, Len(stack) - 2) \o <<resumed>>
             /\ UNCHANGED <<result, traceState>>

\* color_at: intersect_world is empty.
ColorAtMiss ==
    /\ traceState = "running"
    /\ Top.phase = "color_at"
    /\ Return(BLACK)
    /\ UNCHANGED <<lights, depth0, renderVars, refrVars, queryVars, cacheVars>>

\* color_at: the first intersection is on a surface of material m; shade_hit
\* starts with shade = BLACK.
ColorAtHit(m) ==
    /\ traceState = "running"
    /\ Top.phase = "color_at"
    /\ stack' = SetTop([Top EXCEPT !.phase = "shade_hit",
                                   !.reflective = m.reflective,
                                   !.transparency = m.transparency])
    /\ UNCHANGED <<lights, depth0, result, traceState, renderVars, refrVars, queryVars, cacheVars>>

\* shade_hit: the head of `for light in &self.light_sources`.
ShadeHitLoop ==
    /\ traceState = "running"
    /\ Top.phase = "shade_hit"
    /\ IF Top.light <= lights
       THEN /\ stack' = SetTop([Top EXCEPT !.phase = "reflected_color"])
            /\ UNCHANGED <<result, traceState>>
       ELSE Return(Top.shade)
    /\ UNCHANGED <<lights, depth0, renderVars, refrVars, queryVars, cacheVars>>

\* Mutant of SecondaryDepth: the secondary ray keeps the depth of its parent.
SecondaryDepthKept(remaining) == remaining

\* The depth handed to the color_at of a secondary ray.
SecondaryDepth(remaining) == remaining - 1

\* Mutant of ReflectedGuard: the depth is not looked at.
ReflectedGuardNoDepth(f) == f.reflective = 0

\* The guard of reflected_color: no secondary ray.
ReflectedGuard(f) == f.reflective = 0 \/ f.remaining = 0

\* reflected_color(comps, remaining).
ReflectedColor ==
    /\ traceState = "running"
    /\ Top.phase = "reflected_color"
    /\ IF ReflectedGuard(Top)
       THEN stack' = SetTop([Top EXCEPT !.reflected = BLACK, !.phase = "refracted_color"])
       ELSE /\ Len(stack) <= depth0 + 1
            /\ stack' = SetTop([Top EXCEPT !.phase = "reflect_wait"])
                            \o <<ColorAtCall(SecondaryDepth(Top.remaining))>>
    /\ UNCHANGED <<lights, depth0, result, traceState, renderVars, refrVars, queryVars, cacheVars>>

\* The guard of refracted_color: no secondary ray.
RefractedGuard(f) == f.transparency = 0 \/ f.remaining = 0

\* refracted_color(comps, remaining); tir: sin2_t > 1.
RefractedColor(tir) ==
    /\ traceState = "running"
    /\ Top.phase = "refracted_color"
    /\ IF RefractedGuard(Top) \/ tir
       THEN stack' = SetTop([Top EXCEPT !.refracted = BLACK, !.phase = "combine"])
       ELSE /\ Len(stack) <= depth0 + 1
            /\ stack' = SetTop([Top EXCEPT !.phase = "refract_wait"])
                            \o <<ColorAtCall(SecondaryDepth(Top.remaining))>>
    /\ UNCHANGED <<lights, depth0, result, traceState, renderVars, refrVars, queryVars, cacheVars>>

\* shade_hit: shade += surface + reflected + refracted (Schlick-weighted or
\* not), then the next light; reflected and refracted are locals of the loop
\* body.  The surface colour of lighting is not black.
ShadeHitAdd ==
    /\ traceState = "running"
    /\ Top.phase = "combine"
    /\ stack' = SetTop([Top EXCEPT
            !.shade = ColorAdd(@, ColorAdd(LIT, ColorAdd(Top.reflected, Top.refracted))),
            !.reflected = BLACK,
            !.refracted = BLACK,
            !.light = @ + 1,
            !.phase = "shade_hit"])
    /\ UNCHANGED <<lights, depth0, result, traceState, renderVars, refrVars, queryVars, cacheVars>>

TraceInit(worlds) ==
    /\ \E w \in worlds : lights = w[1] /\ depth0 = w[2]
    /\ stack = <<ColorAtCall(depth0)>>
    /\ result = BLACK
    /\ traceState = "running"

----------------------------------------------------------------------------
\* ray.rs, world.rs: hit_intersections, intersect_world, is_shadowed_for_light
\* and the choice of the intersection that color_at shades.
\*
\* An Intersection is [t, object], the object being its place in
\* World.objects.  For a given ray an object of the world is modelled by the t
\* values its intersect returns (none, one for a plane, t1 <= t2 for a sphere)
\* and by its casts_shadow flag.

None == <<>>

Some(v) == <<v>>

Times == (0 - 1)..MaxT

\* retain(|value| value.t > 0.0)
Positive(v) == v.t > 0

\* Mutant of InsertByT: an intersection goes before those of equal t.
InsertBeforeEqual(sorted, v) ==
    LET k == Cardinality({j \in DOMAIN sorted : sorted[j].t < v.t})
    IN  SubSeq(sorted, 1, k) \o <<v>> \o SubSeq(sorted, k + 1, Len(sorted))

\* sort_by(|a, b| a.t.partial_cmp(&b.t).unwrap()) is a stable sort: an element
\* stays behind the earlier elements that compare equal.
InsertByT(sorted, v) ==
    LET k == Cardinality({j \in DOMAIN sorted : sorted[j].t <= v.t})
    IN  SubSeq(sorted, 1, k) \o <<v>> \o SubSeq(sorted, k + 1, Len(sorted))

RECURSIVE SortByT(_)
SortByT(s) ==
    IF s = <<>> THEN <<>>
    ELSE InsertByT(SortByT(SubSeq(s, 1, Len(s) - 1)), s[Len(s)])

\* ray.rs hit_intersections
HitIntersections(intersections) ==
    LET tmp_instersections == SortByT(SelectSeq(intersections, Positive))
    IN  IF tmp_instersections = <<>> THEN None ELSE Some(tmp_instersections[1])

\* object.intersect(ray): the object's t values as Intersections.
ObjectIntersect(world, o) ==
    [j \in DOMAIN world[o].ts |-> [t |-> world[o].ts[j], object |-> o]]

\* The loop of intersect_world: the objects' intersections appended in the
\* order of the objects.
RECURSIVE AppendAll(_, _)
AppendAll(world, n) ==
    IF n = 0 THEN <<>> ELSE AppendAll(world, n - 1) \o ObjectIntersect(world, n)

\* World::intersect_world
IntersectWorld(world) == SortByT(SelectSeq(AppendAll(world, Len(world)), Positive))

\* Object::has_shadow: the casts_shadow flag of the object.
HasShadow(obj) == obj.casts

\* Mutant of IsShadowedForLight: the distance to the light is not looked at.
IsShadowedAtAnyDistance(world, distance) ==
    LET h == HitIntersections(IntersectWorld(world))
    IN  IF h # None THEN HasShadow(world[h[1].object]) ELSE FALSE

\* World::is_shadowed_for_light; distance is the magnitude of light - point.
IsShadowedForLight(world, distance) ==
    LET h == HitIntersections(IntersectWorld(world))
    IN  IF h # None
        THEN HasShadow(world[h[1].object]) /\ h[1].t < distance
        ELSE FALSE

\* Mutant of HitOfColorAt: the last intersection of the list.
LastOfList(intersections) == intersections[Len(intersections)]

\* &intersections[0] in color_at.
HitOfColorAt(intersections) == intersections[1]

\* World::color_at: BLACK for an empty list, else the shade_hit (a colour that
\* is not black here) of the computations prepared for the first intersection.
ColorAt(world) ==
    LET intersections == IntersectWorld(world)
    IN  IF intersections = <<>>
        THEN [color |-> BLACK, shaded |-> None]
        ELSE [color |-> LIT, shaded |-> Some(HitOfColorAt(intersections))]

\* The calls.
CallHitIntersections ==
    /\ call.op = "hit_intersections"
    /\ ret = <<>>
    /\ ret' = <<HitIntersections(call.xs)>>
    /\ UNCHANGED <<call, renderVars, refrVars, traceVars, cacheVars>>

CallIntersectWorld ==
    /\ call.op = "intersect_world"
    /\ ret = <<>>
    /\ ret' = <<IntersectWorld(call.world)>>
    /\ UNCHANGED <<call, renderVars, refrVars, traceVars, cacheVars>>

CallIsShadowedForLight ==
    /\ call.op = "is_shadowed_for_light"
    /\ ret = <<>>
    /\ ret' = <<IsShadowedForLight(call.world, call.distance)>>
    /\ UNCHANGED <<call, renderVars, refrVars, traceVars, cacheVars>>

CallColorAt ==
    /\ call.op = "color_at"
    /\ ret = <<>>
    /\ ret' = <<ColorAt(call.world)>>
    /\ UNCHANGED <<call, renderVars, refrVars, traceVars, cacheVars>>

\* The arguments: lists of up to MaxWorldObjects + 1 intersections in any
\* order; worlds of up to MaxWorldObjects objects.
SeqsUpTo(S, n) == UNION {[1..k -> S] : k \in 0..n}

\* world.rs: shade_hit.  A colour is one channel, kept times ten; reflectance
\* is schlick(comps) in tenths; reflective and transparency are 0 or positive.
\* What lighting, reflected_color and refracted_color return is given (black
\* from reflected_color when reflective is 0, from refracted_color when
\* transparency is 0).

\* Mutant of Contribution: the two Schlick weights are exchanged.
ContributionSwapped(material, surface, reflected, refracted, reflectance) ==
    IF material.reflective > 0 /\ material.transparency > 0
    THEN 10 * surface + reflected * (10 - reflectance) + refracted * reflectance
    ELSE 10 * (surface + reflected + refracted)

\* The body of `for light in &self.light_sources`: what is added to shade.
Contribution(material, surface, reflected, refracted, reflectance) ==
    IF material.reflective > 0 /\ material.transparency > 0
    THEN 10 * surface + reflected * reflectance + refracted * (10 - reflectance)
    ELSE 10 * (surface + reflected + refracted)

\* Mutant of ShadeHit: the reflected and refracted colours are added once,
\* after the loop over the lights.
ShadeHitSecondaryOnce(material, surfaces, reflected, refracted, reflectance) ==
    LET RECURSIVE Direct(_)
        Direct(n) == IF n = 0 THEN BLACK ELSE Direct(n - 1) + surfaces[n]
    IN  10 * Direct(Len(surfaces))
        + Contribution(material, BLACK, reflected, refracted, reflectance)

\* World::shade_hit: shade starts black and each light adds its contribution.
RECURSIVE ShadeHit(_, _, _, _, _)
ShadeHit(material, surfaces, reflected, refracted, reflectance) ==
    IF surfaces = <<>> THEN 10 * BLACK
    ELSE ShadeHit(material, SubSeq(surfaces, 1, Len(surfaces) - 1), reflected, refracted,
                  reflectance)
         + Contribution(material, surfaces[Len(surfaces)], reflected, refracted, reflectance)

CallShadeHit ==
    /\ ret = None
    /\ call.op = "shade_hit"
    /\ ret' = Some(ShadeHit(call.material, call.surfaces, call.reflected, call.refracted,
                            call.reflectance))
    /\ UNCHANGED <<call, renderVars, refrVars, traceVars, cacheVars>>

\* refraction.rs: an f64 that is a quotient of integers, kept exact as
\* <<numerator, denominator>> in lowest terms with a positive denominator.
Ratio(num, den) ==
    LET RECURSIVE Gcd(_, _)
        Gcd(a, b) == IF b = 0 THEN a ELSE Gcd(b, a % b)
        g == Gcd(den, num)
    IN  <<num \div g, den \div g>>

\* n.powi(2) * (1.0 - cos.powi(2)) with n = n1 / n2, for cos = <<c, d>>.
Sin2T(index1, index2, cos) ==
    Ratio(index1 * index1 * (cos[2] * cos[2] - cos[1] * cos[1]), index2 * index2 * cos[2] * cos[2])

\* Mutant of Schlick: the early return of total internal reflection is missing.
SchlickWithoutTotalReflection(index1, index2, cos) ==
    LET sint_t == Sin2T(index1, index2, cos)
        d == sint_t[2] - sint_t[1]
    IN  [r0 |-> Ratio((index1 - index2) * (index1 - index2), (index1 + index2) * (index1 + index2)),
         cos |-> IF index1 > index2 THEN Ratio(d * d, sint_t[2] * sint_t[2]) ELSE cos]

\* Computation::schlick for cos = dot(eyev, normalv).  The value returned is 1
\* under total internal reflection, else r0 + (1 - r0) * (1 - cos)^5, kept as
\* the r0 and the cos the code puts into that expression: when n1 > n2 the
\* cos is cos_t = (1.0 - sint_t).powi(2).
Schlick(index1, index2, cos) ==
    LET sint_t == Sin2T(index1, index2, cos)
        d == sint_t[2] - sint_t[1]
    IN  IF index1 > index2 /\ sint_t[1] > sint_t[2]
        THEN [value |-> 1]
        ELSE [r0 |-> Ratio((index1 - index2) * (index1 - index2), (index1 + index2) * (index1 + index2)),
              cos |-> IF index1 > index2 THEN Ratio(d * d, sint_t[2] * sint_t[2]) ELSE cos]

\* World::refracted_color: black for an opaque material, at the end of the
\* recursion and under total internal reflection, else the colour traced
\* along the refracted ray times the transparency.
RefractedColorOf(transparency, remaining, index1, index2, cos, traced) ==
    IF transparency = 0 \/ remaining = 0 THEN BLACK
    ELSE IF Sin2T(index1, index2, cos)[1] > Sin2T(index1, index2, cos)[2] THEN BLACK
    ELSE ColorMul(traced, transparency)

\* refracted_color and schlick on one shading record, as shade_hit calls them.
CallRefraction ==
    /\ ret = None
    /\ call.op = "refraction"
    /\ ret' = Some([refracted |-> RefractedColorOf(call.transparency, call.remaining,
                                                   call.n1, call.n2, call.cos, call.traced),
                    reflectance |-> Schlick(call.n1, call.n2, call.cos)])
    /\ UNCHANGED <<call, renderVars, refrVars, traceVars, cacheVars>>

ObjectResults ==
    {<<>>} \cup {<<t>> : t \in Times}
           \cup {p \in Times \X Times : p[1] <= p[2]}

Worlds(flags) == SeqsUpTo([ts : ObjectResults, casts : flags], MaxWorldObjects)

Calls ==
    [op : {"hit_intersections"},
     xs : SeqsUpTo([t : Times, object : 1..MaxWorldObjects], MaxWorldObjects + 1)]
    \cup [op : {"intersect_world", "color_at"}, world : Worlds({TRUE})]
    \cup [op : {"is_shadowed_for_light"}, world : Worlds(BOOLEAN),
          distance : 1..(MaxT + 1)]
    \cup {c \in [op : {"shade_hit"}, material : Materials,
                  surfaces : SeqsUpTo(0..2, MaxLights + 1), reflected : 0..2,
                  refracted : 0..2, reflectance : {0, 4, 10}] :
             /\ c.material.reflective = 0 => c.reflected = BLACK
             /\ c.material.transparency = 0 => c.refracted = BLACK}
    \cup [op : {"refraction"}, transparency : {0, 1}, remaining : {0, 1},
          n1 : {10} \cup {RefractiveIndex(o) : o \in Objects},
          n2 : {10} \cup {RefractiveIndex(o) : o \in Objects},
          cos : {Ratio(c, MaxCos) : c \in 0..MaxCos}, traced : {BLACK, 1}]

QueryInit(calls) ==
    /\ call \in calls
    /\ ret = <<>>

----------------------------------------------------------------------------
\* tuple.rs
\*
\* A Tuple is [x, y, z, w] with w one of the two values of the enum W.  A
\* call that panics is modelled by the value [panic |-> message].

Coords == (0 - MaxCoord)..MaxCoord

Panic(message) == [panic |-> message]

NewPoint(x, y, z) == [x |-> x, y |-> y, z |-> z, w |-> "Point"]

NewVector(x, y, z) == [x |-> x, y |-> y, z |-> z, w |-> "Vector"]

Tuples == [x : Coords, y : Coords, z : Coords, w : {"Point", "Vector"}]

\* Mutant of WAdd: the sum of two points is taken to be a point.
WAddPointPoint(a, b) ==
    IF a = "Vector" /\ b = "Vector" THEN "Vector" ELSE "Point"

\* impl Add for W: the kind of the sum, or the message of the panic.
WAdd(a, b) ==
    CASE a = "Point" /\ b = "Vector" -> "Point"
      [] a = "Vector" /\ b = "Point" -> "Point"
      [] a = "Vector" /\ b = "Vector" -> "Vector"
      [] OTHER -> "W ADD , case not supported"

\* impl Sub for W: the kind of the difference, or the message of the panic.
WSub(a, b) ==
    CASE a = "Point" /\ b = "Vector" -> "Point"
      [] a = "Vector" /\ b = "Vector" -> "Vector"
      [] a = "Point" /\ b = "Point" -> "Vector"
      [] OTHER -> "W ADD Vector + Point, it don't mean anything, case not supported"

\* impl Add for Tuple: the fields of the result are evaluated in order, w last.
TupleAdd(a, b) ==
    LET w == WAdd(a.w, b.w)
    IN  IF w \in {"Point", "Vector"}
        THEN [x |-> a.x + b.x, y |-> a.y + b.y, z |-> a.z + b.z, w |-> w]
        ELSE Panic(w)

\* impl Sub for Tuple
TupleSub(a, b) ==
    LET w == WSub(a.w, b.w)
    IN  IF w \in {"Point", "Vector"}
        THEN [x |-> a.x - b.x, y |-> a.y - b.y, z |-> a.z - b.z, w |-> w]
        ELSE Panic(w)

\* impl Mul<f64> for Tuple
TupleMul(a, scalar) ==
    [x |-> a.x * scalar, y |-> a.y * scalar, z |-> a.z * scalar, w |-> a.w]

\* The real number sqrt(n), kept exact.
Sqrt(n) == [sqrt |-> n]

\* Mutant of Magnitude: the kind of the tuple is not looked at.
MagnitudeUnchecked(a) == Sqrt(a.x * a.x + a.y * a.y + a.z * a.z)

\* Tuple::magnitude
Magnitude(a) ==
    IF a.w = "Point" THEN Panic("magnitude is only for vectors")
    ELSE Sqrt(a.x * a.x + a.y * a.y + a.z * a.z)

\* impl Div<f64> for Tuple, for a divisor sqrt(n): the components are kept as
\* numerators over sqrt(over).
TupleDivSqrt(a, magnitude) ==
    [x |-> a.x, y |-> a.y, z |-> a.z, w |-> a.w, over |-> magnitude.sqrt]

\* Tuple::normalize
Normalize(a) ==
    IF a.w = "Point" THEN Panic("normalisation is only for vectors")
    ELSE TupleDivSqrt(a, Magnitude(a))

\* Tuple::dot_product
DotProduct(a, b) ==
    IF a.w = "Point" \/ b.w = "Point" THEN Panic("dot product is only for vectors")
    ELSE [value |-> a.x * b.x + a.y * b.y + a.z * b.z]

\* Tuple::cross_product
CrossProduct(a, b) ==
    IF a.w = "Point" \/ b.w = "Point" THEN Panic("cross product is only for vectors")
    ELSE NewVector(a.y * b.z - a.z * b.y, a.z * b.x - a.x * b.z, a.x * b.y - a.y * b.x)

\* The operations on tuples, one call each.
TupleBinary(op, a, b) ==
    CASE op = "add" -> TupleAdd(a, b)
      [] op = "sub" -> TupleSub(a, b)
      [] op = "dot_product" -> DotProduct(a, b)
      [] op = "cross_product" -> CrossProduct(a, b)

CallTupleBinary ==
    /\ ret = None
    /\ call.op \in {"add", "sub", "dot_product", "cross_product"}
    /\ ret' = Some(TupleBinary(call.op, call.a, call.b))
    /\ UNCHANGED <<call, renderVars, refrVars, traceVars, cacheVars>>

CallTupleMul ==
    /\ ret = None
    /\ call.op = "mul"
    /\ ret' = Some(TupleMul(call.a, call.scalar))
    /\ UNCHANGED <<call, renderVars, refrVars, traceVars, cacheVars>>

CallMagnitude ==
    /\ ret = None
    /\ call.op = "magnitude"
    /\ ret' = Some(Magnitude(call.a))
    /\ UNCHANGED <<call, renderVars, refrVars, traceVars, cacheVars>>

CallNormalize ==
    /\ ret = None
    /\ call.op = "normalize"
    /\ ret' = Some(Normalize(call.a))
    /\ UNCHANGED <<call, renderVars, refrVars, traceVars, cacheVars>>

TupleCalls ==
    [op : {"add", "sub", "dot_product", "cross_product"}, a : Tuples, b : Tuples]
    \cup [op : {"mul"}, a : Tuples, scalar : Coords]
    \cup [op : {"magnitude", "normalize"}, a : Tuples]

----------------------------------------------------------------------------
\* matrix.rs, transformation.rs
\*
\* A Matrix is [size, matrix], matrix being the row-major Vec<f64> (element
\* (row, col) at position row * size + col of the Vec, one more in the
\* sequence).  Angles are whole quarter turns, so that sines and cosines are
\* integers.

NewMatrixWithData(size, data) == [size |-> size, matrix |-> data]

Element(m, row, col) == m.matrix[(row * m.size) + col + 1]

\* The places <<row, col>> of a matrix.
Cells(size) == (0..(size - 1)) \X (0..(size - 1))

\* A matrix built element by element (new_matrix followed by set_element).
MatrixOf(size, f) ==
    [size |-> size,
     matrix |-> [k \in 1..(size * size) |-> f[<<(k - 1) \div size, (k - 1) % size>>]]]

NewIdentityMatrix(size) ==
    LET one(row, col) == IF row = col THEN 1 ELSE 0
    IN  MatrixOf(size, [rc \in Cells(size) |-> one(rc[1], rc[2])])

RECURSIVE SumTo(_, _)
SumTo(n, f) == IF n = 0 THEN 0 ELSE SumTo(n - 1, f) + f[n - 1]

\* impl Mul for Matrix
MatMul(a, b) ==
    LET val(row, col) ==
            SumTo(a.size, [i \in 0..(a.size - 1) |-> Element(a, row, i) * Element(b, i, col)])
    IN  MatrixOf(a.size, [rc \in Cells(a.size) |-> val(rc[1], rc[2])])

Transpose(m) ==
    LET val(row, col) == Element(m, col, row)
    IN  MatrixOf(m.size, [rc \in Cells(m.size) |-> val(rc[1], rc[2])])

\* Matrix::sub_matix: the elements outside row `row` and column `col`, in order.
SubMatix(m, row, col) ==
    LET val(r, c) == Element(m, IF r < row THEN r ELSE r + 1, IF c < col THEN c ELSE c + 1)
    IN  MatrixOf(m.size - 1, [rc \in Cells(m.size - 1) |-> val(rc[1], rc[2])])

RECURSIVE Determinant(_)

Minor(m, row, col) == Determinant(SubMatix(m, row, col))

Cofactor(m, row, col) ==
    Minor(m, row, col) * (IF (row + col) % 2 = 1 THEN 0 - 1 ELSE 1)

Determinant(m) ==
    IF m.size = 2
    THEN Element(m, 0, 0) * Element(m, 1, 1) - Element(m, 1, 0) * Element(m, 0, 1)
    ELSE SumTo(m.size, [col \in 0..(m.size - 1) |-> Element(m, 0, col) * Cofactor(m, 0, col)])

IsInvertible(m) == Determinant(m) # 0

\* Mutant of Inverse: the cofactors are stored without the transposition.
InverseNotTransposed(m) ==
    IF ~IsInvertible(m)
    THEN [err |-> "NotInversible"]
    ELSE LET val(col, row) == Cofactor(m, col, row)
         IN  [ok |-> [size |-> m.size,
                      matrix |-> MatrixOf(m.size, [rc \in Cells(m.size) |->
                                                       val(rc[1], rc[2])]).matrix,
                      den |-> Determinant(m)]]

\* Matrix::inverse.  Element (col, row) of the result is c / determinant; the
\* quotients are kept exact as the numerators c over the common denominator.
Inverse(m) ==
    IF ~IsInvertible(m)
    THEN [err |-> "NotInversible"]
    ELSE LET val(col, row) == Cofactor(m, row, col)
         IN  [ok |-> [size |-> m.size,
                      matrix |-> MatrixOf(m.size, [rc \in Cells(m.size) |->
                                                       val(rc[1], rc[2])]).matrix,
                      den |-> Determinant(m)]]

CallInverse ==
    /\ ret = None
    /\ call.op = "inverse"
    /\ ret' = Some(Inverse(call.m))
    /\ UNCHANGED <<call, renderVars, refrVars, traceVars, cacheVars>>

\* f64::cos and f64::sin of q quarter turns.
Cos(q) == CASE q % 4 = 0 -> 1 [] q % 4 = 1 -> 0 [] q % 4 = 2 -> 0 - 1 [] OTHER -> 0

Sin(q) == CASE q % 4 = 0 -> 0 [] q % 4 = 1 -> 1 [] q % 4 = 2 -> 0 [] OTHER -> 0 - 1

\* set_element on each of the given places of an identity matrix of size 4.
IdentityWith(places) ==
    LET val(row, col) ==
            IF <<row, col>> \in DOMAIN places THEN places[<<row, col>>]
            ELSE IF row = col THEN 1 ELSE 0
    IN  MatrixOf(4, [rc \in Cells(4) |-> val(rc[1], rc[2])])

\* create_translation .. create_shearing, for a transform [name, args].
Create(f) ==
    CASE f.name = "translation" ->
            IdentityWith(<<0, 3>> :> f.args[1] @@ <<1, 3>> :> f.args[2] @@ <<2, 3>> :> f.args[3])
      [] f.name = "scaling" ->
            IdentityWith(<<0, 0>> :> f.args[1] @@ <<1, 1>> :> f.args[2] @@ <<2, 2>> :> f.args[3])
      [] f.name = "rotation_x" ->
            IdentityWith(<<1, 1>> :> Cos(f.args[1]) @@ <<1, 2>> :> 0 - Sin(f.args[1])
                         @@ <<2, 1>> :> Sin(f.args[1]) @@ <<2, 2>> :> Cos(f.args[1]))
      [] f.name = "rotation_y" ->
            IdentityWith(<<0, 0>> :> Cos(f.args[1]) @@ <<0, 2>> :> Sin(f.args[1])
                         @@ <<2, 0>> :> 0 - Sin(f.args[1]) @@ <<2, 2>> :> Cos(f.args[1]))
      [] f.name = "rotation_z" ->
            IdentityWith(<<0, 0>> :> Cos(f.args[1]) @@ <<0, 1>> :> 0 - Sin(f.args[1])
                         @@ <<1, 0>> :> Sin(f.args[1]) @@ <<1, 1>> :> Cos(f.args[1]))
      [] f.name = "shearing" ->
            IdentityWith(<<0, 1>> :> f.args[1] @@ <<0, 2>> :> f.args[2] @@ <<1, 0>> :> f.args[3]
                         @@ <<1, 2>> :> f.args[4] @@ <<2, 0>> :> f.args[5]
                         @@ <<2, 1>> :> f.args[6])

Transform(name, args) == Create([name |-> name, args |-> args])

\* impl Matrix: the fluent methods translation .. shearing applied to `self`.
\* The first five return create_*(..) * self; shearing builds the shearing
\* matrix and returns it.
Fluent(self, f) ==
    IF f.name = "shearing"
    THEN Create(f)
    ELSE MatMul(Create(f), self)

CallFluent ==
    /\ ret = None
    /\ call.op = "fluent"
    /\ ret' = Some(Fluent(call.m, call.f))
    /\ UNCHANGED <<call, renderVars, refrVars, traceVars, cacheVars>>

\* a.op1(..).op2(..)
CallChain ==
    /\ ret = None
    /\ call.op = "chain"
    /\ ret' = Some(Fluent(Fluent(call.m, call.f), call.g))
    /\ UNCHANGED <<call, renderVars, refrVars, traceVars, cacheVars>>

\* shape/shape.rs, shape/object.rs: Object::normal_at
\*
\* The transforms are taken among those whose inverse has whole elements, so
\* that points and vectors keep whole coordinates until they are normalized.

IsPanic(v) == "panic" \in DOMAIN v

\* impl Mul<Tuple> for Matrix: the fourth sum is cast to i64 and handed to
\* Tuple::new_tuple, which panics unless it is 0 or 1.
MatMulTuple(m, other) ==
    LET other_as_vec == <<other.x, other.y, other.z, IF other.w = "Point" THEN 1 ELSE 0>>
        tuple_tmp(row) ==
            IF row < m.size
            THEN SumTo(m.size, [col \in 0..(m.size - 1) |->
                                   Element(m, row, col) * other_as_vec[col + 1]])
            ELSE 0
    IN  IF tuple_tmp(3) \in {0, 1}
        THEN [x |-> tuple_tmp(0), y |-> tuple_tmp(1), z |-> tuple_tmp(2),
              w |-> IF tuple_tmp(3) = 1 THEN "Point" ELSE "Vector"]
        ELSE Panic("Tuple must be point OR vector, input w value")

\* matrix::memoized_inverse: the cached inverse of a matrix is its inverse.
MemoizedInverse(m) == Inverse(m)

\* c / self.determinant(), for a quotient that is whole.
Quotient(c, d) == IF d > 0 THEN c \div d ELSE (0 - c) \div (0 - d)

\* Result::unwrap on the inverse, the quotients c / determinant being whole.
Unwrap(r) ==
    IF DOMAIN r = {"err"}
    THEN Panic("called Result::unwrap() on an Err value")
    ELSE [size |-> r.ok.size,
          matrix |-> [k \in DOMAIN r.ok.matrix |-> Quotient(r.ok.matrix[k], r.ok.den)]]

\* world_normal.w = W::from_int(0); world_normal.normalize()
AsUnitVector(world_normal) ==
    IF IsPanic(world_normal) THEN world_normal
    ELSE Normalize([world_normal EXCEPT !.w = "Vector"])

\* Shape::local_normal_at(object, point), by kind of shape.
LocalNormalAt(shape, transform, point) ==
    LET inv == Unwrap(MemoizedInverse(transform))
    IN  IF IsPanic(inv) THEN inv
        ELSE CASE shape = "ShapeTest" ->
                    LET local_point == MatMulTuple(inv, point)
                    IN  IF IsPanic(local_point) THEN local_point
                        ELSE AsUnitVector(MatMulTuple(inv, local_point))
               [] shape = "Sphere" ->
                    LET object_point == MatMulTuple(inv, point)
                        object_normal ==
                            IF IsPanic(object_point) THEN object_point
                            ELSE TupleSub(object_point, NewPoint(0, 0, 0))
                    IN  IF IsPanic(object_normal) THEN object_normal
                        ELSE AsUnitVector(MatMulTuple(Transpose(inv), object_normal))
               [] shape = "Plane" ->
                    MatMulTuple(inv, NewVector(0, 1, 0))

\* Object::normal_at
CallNormalAt ==
    /\ ret = None
    /\ call.op = "normal_at"
    /\ ret' = Some(LocalNormalAt(call.shape, call.transform, call.point))
    /\ UNCHANGED <<call, renderVars, refrVars, traceVars, cacheVars>>

\* Objects of each kind under transforms with whole inverses, the points with
\* coordinates in Coords and the top of the unit sphere moved up by one.
NormalCalls ==
    LET Transforms ==
            {NewIdentityMatrix(4), Transform("translation", <<0, 1, 0>>),
             Transform("rotation_z", <<1>>), Transform("rotation_x", <<3>>),
             Transform("scaling", <<1, 0 - 1, 1>>),
             Transform("shearing", <<1, 0, 0, 0, 0, 0>>),
             MatMul(Transform("translation", <<1, 0, 0 - 1>>), Transform("rotation_y", <<1>>))}
    IN  [op : {"normal_at"}, shape : {"ShapeTest", "Sphere", "Plane"},
         transform : {m \in Transforms :
                        \A k \in DOMAIN m.matrix :
                            Quotient(Inverse(m).ok.matrix[k], Inverse(m).ok.den)
                                * Inverse(m).ok.den = Inverse(m).ok.matrix[k]},
         point : {t \in Tuples : t.w = "Point"} \cup {NewPoint(0, 2, 0)}]

\* The calls on matrices.  inverse: every matrix of size 2 with elements in
\* Coords, every matrix of size 3 with elements 0 and 1, and the matrices of
\* size 4 whose rows are taken from six rows.  The fluent methods: each on six
\* transforms, with every choice of arguments; the chains of two methods.
MatrixCalls ==
    LET Rows4 ==
            {<<1, 0, 0, 0>>, <<0, 1, 0, 0>>, <<0, 0, 1, 0>>, <<0, 0, 0, 1>>,
             <<1, 1, 0, 2>>, <<0, 2, 1, 0 - 1>>}
        InverseInputs ==
            {NewMatrixWithData(2, d) : d \in [1..4 -> Coords]}
            \cup {NewMatrixWithData(3, d) : d \in [1..9 -> {0, 1}]}
            \cup {NewMatrixWithData(4, r[1] \o r[2] \o r[3] \o r[4]) :
                    r \in Rows4 \X Rows4 \X Rows4 \X Rows4}
        TransformInputs ==
            {NewIdentityMatrix(4), Transform("translation", <<1, 0, 0 - 1>>),
             Transform("scaling", <<2, 1, 0 - 1>>), Transform("rotation_z", <<1>>),
             Transform("shearing", <<1, 0, 0, 0, 0, 1>>),
             NewMatrixWithData(4, <<1, 1, 0, 2, 0, 2, 1, 0 - 1, 0, 0, 1, 0, 0, 0, 0, 1>>)}
        FluentOps ==
            [name : {"translation", "scaling"}, args : Coords \X Coords \X Coords]
            \cup [name : {"rotation_x", "rotation_y", "rotation_z"},
                  args : {<<q>> : q \in 0..3}]
            \cup [name : {"shearing"},
                  args : Coords \X Coords \X Coords \X Coords \X Coords \X Coords]
        ChainOps ==
            {[name |-> "translation", args |-> <<1, 0 - 1, 0>>],
             [name |-> "scaling", args |-> <<2, 1, 0 - 1>>],
             [name |-> "rotation_x", args |-> <<1>>],
             [name |-> "rotation_y", args |-> <<3>>],
             [name |-> "rotation_z", args |-> <<2>>],
             [name |-> "shearing", args |-> <<1, 0, 0, 0 - 1, 0, 1>>]}
    IN  [op : {"inverse"}, m : InverseInputs]
        \cup [op : {"fluent"}, m : TransformInputs, f : FluentOps]
        \cup [op : {"chain"}, m : TransformInputs, f : ChainOps, g : ChainOps]

----------------------------------------------------------------------------
\* matrix::memoized_inverse: a process-wide map from a matrix (its contents) to
\* the result of Matrix::inverse, read without lock and written by serialized
\* inserts; the render workers look up concurrently.

\* The transforms looked up: one that is invertible and one that is singular.
CacheMatrices ==
    {MatMul(Transform("translation", <<1, 0, 0 - 1>>),
            Transform("shearing", <<1, 0, 0, 0, 0, 1>>)),
     Transform("scaling", <<0, 1, 1>>)}

\* A worker calls memoized_inverse(m) and reads the map: the stored value on a
\* hit, nothing on a miss.
CacheLookup(w) ==
    /\ workers[w].pc = "idle"
    /\ workers[w].left > 0
    /\ \E m \in CacheMatrices :
          workers' = [workers EXCEPT ![w] =
              IF m \in DOMAIN cache
              THEN [pc |-> "returned", m |-> m, value |-> cache[m], hit |-> TRUE,
                    left |-> @.left]
              ELSE [pc |-> "miss", m |-> m, value |-> <<>>, hit |-> FALSE,
                    left |-> @.left]]
    /\ UNCHANGED <<cache, renderVars, refrVars, traceVars, queryVars>>

\* On a miss the worker computes Matrix::inverse of its matrix.
CacheCompute(w) ==
    /\ workers[w].pc = "miss"
    /\ workers' = [workers EXCEPT ![w].pc = "computed",
                                  ![w].value = Inverse(workers[w].m)]
    /\ UNCHANGED <<cache, renderVars, refrVars, traceVars, queryVars>>

\* The serialized insert of the whole entry, then the return of the value.
CacheInsert(w) ==
    /\ workers[w].pc = "computed"
    /\ cache' = (workers[w].m :> workers[w].value) @@ cache
    /\ workers' = [workers EXCEPT ![w].pc = "returned"]
    /\ UNCHANGED <<renderVars, refrVars, traceVars, queryVars>>

\* The caller has the value and goes on to its next lookup.
CacheReturn(w) ==
    /\ workers[w].pc = "returned"
    /\ workers' = [workers EXCEPT ![w].pc = "idle", ![w].left = @ - 1]
    /\ UNCHANGED <<cache, renderVars, refrVars, traceVars, queryVars>>

CacheInit(ws, n) ==
    /\ cache = <<>>
    /\ workers = [w \in ws |->
                    [pc |-> "idle", m |-> NewIdentityMatrix(4), value |-> <<>>,
                     hit |-> FALSE, left |-> n]]

NextCache ==
    \E w \in DOMAIN workers :
        \/ CacheLookup(w)
        \/ CacheCompute(w)
        \/ CacheInsert(w)
        \/ CacheReturn(w)

InitQuery ==
    /\ CameraInit({1}, {1}, {"none"})
    /\ WalkInit({<<[t |-> 1, object |-> 1]>>})
    /\ TraceInit({<<0, 0>>})
    /\ QueryInit(Calls)
    /\ CacheInit({}, 0)

NextQuery ==
    \/ CallHitIntersections
    \/ CallIntersectWorld
    \/ CallIsShadowedForLight
    \/ CallColorAt
    \/ CallShadeHit
    \/ CallRefraction

\* Worlds of up to MaxLights lights traced with a depth of up to MaxDepth, and
\* worlds of at most one light traced with the camera's depth MAX_RECURTION.
InitTrace ==
    /\ CameraInit({1}, {1}, {"none"})
    /\ WalkInit({<<[t |-> 1, object |-> 1]>>})
    /\ TraceInit(((0..MaxLights) \X (0..MaxDepth)) \cup ({0, 1} \X {MAX_RECURTION}))
    /\ QueryInit({[op |-> "color_at", world |-> <<>>]})
    /\ CacheInit({}, 0)

NextTrace ==
    \/ ColorAtMiss
    \/ \E m \in Materials : ColorAtHit(m)
    \/ ShadeHitLoop
    \/ ReflectedColor
    \/ \E tir \in BOOLEAN : RefractedColor(tir)
    \/ ShadeHitAdd

InitRefr ==
    /\ CameraInit({1}, {1}, {"none"})
    /\ WalkInit({IntersectionList(s, tg) : s \in PairOrders, tg \in BOOLEAN})
    /\ TraceInit({<<0, 0>>})
    /\ QueryInit({[op |-> "color_at", world |-> <<>>]})
    /\ CacheInit({}, 0)

NextRefr == WalkStep

InitRender ==
    /\ CameraInit(1..MaxHsize, 1..MaxVsize, {"none"})
    /\ WalkInit({<<[t |-> 1, object |-> 1]>>})
    /\ TraceInit({<<0, 0>>})
    /\ QueryInit({[op |-> "color_at", world |-> <<>>]})
    /\ CacheInit({}, 0)

Spec == InitRender /\ [][NextRender]_vars

----------------------------------------------------------------------------
\* canvas.rs, color.rs, minifb_als.rs: one call of one function.
\*
\* A Color is <<red, green, blue>> in tenths.

\* canvas::pos_from_index
PosFromIndex(index, canvas) == <<index % canvas.width, index \div canvas.width>>

\* Mutant of Normalise: the cast to u8 wraps around instead of saturating.
NormaliseWrapping(color) ==
    [k \in 1..3 |-> ((color[k] * 255) \div 10) % 256]

\* Color::normalise: (component * 255.0) as u8 for each component; the cast
\* of an f64 truncates towards zero and saturates at 0 and 255.
Normalise(color) ==
    [k \in 1..3 |->
        LET scaled == color[k] * 255
        IN  IF scaled <= 0 THEN 0
            ELSE IF scaled \div 10 > 255 THEN 255
            ELSE scaled \div 10]

\* from_u8_tuble_rgb: the three bytes have no bit in common, so the bitwise
\* or of the shifted values is their sum.
FromU8TubleRgb(tuple) == (tuple[1] * 65536) + (tuple[2] * 256) + tuple[3]

\* buffer_from_canvas: vec![0; width * height], then the pixels zipped with it.
BufferFromCanvas(canvas) ==
    [k \in 0..(canvas.width * canvas.height - 1) |->
        IF k \in DOMAIN canvas.pixels THEN FromU8TubleRgb(Normalise(canvas.pixels[k]))
        ELSE 0]

Raster(c) ==
    CASE c.op = "new_canvas" -> NewCanvas(c.width, c.height)
      [] c.op = "set_pixel_color" -> SetPixelColor(c.canvas, c.x, c.y, c.color)
      [] c.op = "pos_from_index" ->
            PosFromIndex(IndexFromPos(c.x, c.y, c.canvas.width), c.canvas)
      [] c.op = "normalise" -> Normalise(c.color)
      [] c.op = "buffer_from_canvas" -> BufferFromCanvas(c.canvas)

CallRaster ==
    /\ ret = None
    /\ call.op \in {"new_canvas", "set_pixel_color", "pos_from_index", "normalise",
                    "buffer_from_canvas"}
    /\ ret' = Some(Raster(call))
    /\ UNCHANGED <<call, renderVars, refrVars, traceVars, cacheVars>>

\* camera.rs: the constructors of Camera.
\*
\* field_of_view is kept as the ratio tan(field_of_view / 2); half_width,
\* half_height and pixel_size are ratios.

\* Mutant of CalculateRatios: the branch of an upright canvas is missing.
CalculateRatiosWide(camera) ==
    LET half_view == camera.field_of_view
    IN  [camera EXCEPT
            !.half_width = half_view,
            !.half_height = Ratio(half_view[1] * camera.vsize, half_view[2] * camera.hsize),
            !.pixel_size = Ratio(half_view[1] * 2, half_view[2] * camera.hsize)]

\* Camera::calculate_ratios, with aspect = hsize / vsize.
CalculateRatios(camera) ==
    LET half_view == camera.field_of_view
        half_width ==
            IF camera.hsize >= camera.vsize THEN half_view
            ELSE Ratio(half_view[1] * camera.hsize, half_view[2] * camera.vsize)
        half_height ==
            IF camera.hsize >= camera.vsize
            THEN Ratio(half_view[1] * camera.vsize, half_view[2] * camera.hsize)
            ELSE half_view
    IN  [camera EXCEPT
            !.half_width = half_width,
            !.half_height = half_height,
            !.pixel_size = Ratio(half_width[1] * 2, half_width[2] * camera.hsize)]

\* with_size, with_fov, with_transformation and set_transform.
CameraWith(camera, step) ==
    CASE step.name = "with_size" ->
            CalculateRatios([camera EXCEPT !.hsize = step.hsize, !.vsize = step.vsize])
      [] step.name = "with_fov" ->
            CalculateRatios([camera EXCEPT !.field_of_view = step.fov])
      [] step.name \in {"with_transformation", "set_transform"} ->
            [camera EXCEPT !.transformation = step.transformation]

\* Camera::new: default() with its size and field of view replaced by
\* with_size and with_fov, then calculate_ratios once more.
CameraNew(h, v, field_of_view) ==
    LET default == CalculateRatios(
            [hsize |-> 200, vsize |-> 100, field_of_view |-> <<93, 100>>,
             transformation |-> NewIdentityMatrix(4), half_width |-> <<0, 1>>,
             half_height |-> <<0, 1>>, pixel_size |-> <<0, 1>>])
    IN  CalculateRatios(
            CameraWith(CameraWith(default, [name |-> "with_size", hsize |-> h,
                                            vsize |-> v]),
                       [name |-> "with_fov", fov |-> field_of_view]))

\* Camera::new followed by the steps of the call, in order.
CallCamera ==
    /\ ret = None
    /\ call.op = "camera"
    /\ LET RECURSIVE After(_)
           After(n) == IF n = 0 THEN CameraNew(call.hsize, call.vsize, call.fov)
                       ELSE CameraWith(After(n - 1), call.steps[n])
       IN  ret' = Some(After(Len(call.steps)))
    /\ UNCHANGED <<call, renderVars, refrVars, traceVars, cacheVars>>

\* The calls: canvases of up to MaxHsize columns and rows with black and grey
\* pixels, positions inside them (any row for pos_from_index); colours with
\* components from -0.1 to 1.1 by tenths and beyond; canvases of three of them;
\* cameras of up to MaxHsize + 1 columns and rows, with tan(fov / 2) one of 1/2,
\* 1 and 2, followed by up to two steps.
RasterCalls ==
    LET Sizes == 1..MaxHsize
        Canvases(colors) ==
            UNION {[width : {w}, height : {h}, pixels : [0..(w * h - 1) -> colors]] :
                   w \in Sizes, h \in Sizes}
        Components == ((0 - 1)..11) \cup {0 - 30, 26, 300}
        Shown == {<<0 - 1, 5, 11>>, <<10, 0, 26>>, <<0, 0, 0>>}
        Fovs == {<<1, 2>>, <<1, 1>>, <<2, 1>>}
        Steps ==
            [name : {"with_size"}, hsize : 1..(MaxHsize + 1), vsize : 1..(MaxHsize + 1)]
            \cup [name : {"with_fov"}, fov : Fovs]
            \cup [name : {"with_transformation", "set_transform"},
                  transformation : {Transform("translation", <<1, 0, 0 - 1>>)}]
    IN  [op : {"new_canvas"}, width : Sizes, height : Sizes]
        \cup {c \in [op : {"set_pixel_color"}, canvas : Canvases({BLACK, 1}),
                     x : 0..(MaxHsize - 1), y : 0..(MaxHsize - 1), color : {1, 2}] :
                 c.x < c.canvas.width /\ c.y < c.canvas.height}
        \cup {c \in [op : {"pos_from_index"}, canvas : Canvases({BLACK}),
                     x : 0..(MaxHsize - 1), y : 0..MaxHsize] :
                 c.x < c.canvas.width}
        \cup [op : {"normalise"}, color : Components \X Components \X Components]
        \cup [op : {"buffer_from_canvas"}, canvas : Canvases(Shown)]
        \cup [op : {"camera"}, hsize : 1..(MaxHsize + 1), vsize : 1..(MaxHsize + 1),
              fov : Fovs, steps : SeqsUpTo(Steps, 2)]

----------------------------------------------------------------------------

\* ray.rs, reflection.rs: lighting
\*
\* Colours are one number per colour (grey); ambiant, diffuse and specular of
\* the material are in tenths.  The light vector is kept as the vector from
\* the point to the light over its length sqrt(over).

\* ray::reflect
Reflect(inv, normal) == TupleSub(inv, TupleMul(normal, 2 * DotProduct(inv, normal).value))

\* Mutant of Lighting: the in_shadow flag is not looked at.
LightingIgnoringShadow(material, light, point, eyev, normalv, in_shadow) ==
    LET effective_color == material.color * light.intensity
        ligthv == Normalize(TupleSub(light.position, point))
        light_dot_normal == DotProduct(ligthv, normalv).value
        reflect_dot_eye == DotProduct(Reflect(TupleMul(ligthv, 0 - 1), normalv), eyev).value
    IN  IF light_dot_normal < 0
        THEN [ambiant |-> effective_color * material.ambiant,
              diffuse |-> [times |-> BLACK, over |-> 1],
              specular |-> [times |-> BLACK, base |-> 0, over |-> 1,
                            shininess |-> material.shininess]]
        ELSE [ambiant |-> effective_color * material.ambiant,
              diffuse |-> [times |-> effective_color * material.diffuse * light_dot_normal,
                           over |-> ligthv.over],
              specular |-> IF reflect_dot_eye <= 0
                           THEN [times |-> BLACK, base |-> 0, over |-> 1,
                                 shininess |-> material.shininess]
                           ELSE [times |-> light.intensity * material.specular,
                                 base |-> reflect_dot_eye, over |-> ligthv.over,
                                 shininess |-> material.shininess]]

\* reflection::lighting for a material without pattern.  The colour returned
\* is the sum of the three terms of the record; diffuse and specular are kept
\* as their factors: diffuse is times / sqrt(over), specular is
\* times * (base / sqrt(over)) ^ shininess, and black has times = BLACK.
Lighting(material, light, point, eyev, normalv, in_shadow) ==
    LET effective_color == material.color * light.intensity
        ligthv == Normalize(TupleSub(light.position, point))
        light_dot_normal == DotProduct(ligthv, normalv).value
        reflect_dot_eye == DotProduct(Reflect(TupleMul(ligthv, 0 - 1), normalv), eyev).value
    IN  IF in_shadow \/ light_dot_normal < 0
        THEN [ambiant |-> effective_color * material.ambiant,
              diffuse |-> [times |-> BLACK, over |-> 1],
              specular |-> [times |-> BLACK, base |-> 0, over |-> 1,
                            shininess |-> material.shininess]]
        ELSE [ambiant |-> effective_color * material.ambiant,
              diffuse |-> [times |-> effective_color * material.diffuse * light_dot_normal,
                           over |-> ligthv.over],
              specular |-> IF reflect_dot_eye <= 0
                           THEN [times |-> BLACK, base |-> 0, over |-> 1,
                                 shininess |-> material.shininess]
                           ELSE [times |-> light.intensity * material.specular,
                                 base |-> reflect_dot_eye, over |-> ligthv.over,
                                 shininess |-> material.shininess]]

\* world.rs: prepare_computations_helper
\*
\* `normal` is what object.normal_at(point) returned.  over_point and
\* under_point are kept as the point `at` and the vector `shift` that is added
\* to it times SHADOW_EPSILON.

\* Mutant of PrepareComputationsHelper: the offsets are taken from the normal
\* before it is turned towards the eye.
PrepareComputationsHelperOffsetFirst(t, normal, ray) ==
    LET point == TupleAdd(ray.origin, TupleMul(ray.direction, t))
        eyev == TupleMul(ray.direction, 0 - 1)
        inside == DotProduct(normal, eyev).value < 0
    IN  [t |-> t, point |-> point, eyev |-> eyev,
         reflectv |-> Reflect(ray.direction, normal),
         inside |-> inside,
         normalv |-> IF inside THEN TupleMul(normal, 0 - 1) ELSE normal,
         over_point |-> [at |-> point, shift |-> normal],
         under_point |-> [at |-> point, shift |-> TupleMul(normal, 0 - 1)]]

PrepareComputationsHelper(t, normal, ray) ==
    LET point == TupleAdd(ray.origin, TupleMul(ray.direction, t))
        eyev == TupleMul(ray.direction, 0 - 1)
        inside == DotProduct(normal, eyev).value < 0
        normalv == IF inside THEN TupleMul(normal, 0 - 1) ELSE normal
    IN  [t |-> t, point |-> point, eyev |-> eyev,
         reflectv |-> Reflect(ray.direction, normal),
         inside |-> inside,
         normalv |-> normalv,
         over_point |-> [at |-> point, shift |-> normalv],
         under_point |-> [at |-> point, shift |-> TupleMul(normalv, 0 - 1)]]

CallPrepareComputationsHelper ==
    /\ ret = None
    /\ call.op = "prepare_computations_helper"
    /\ ret' = Some(PrepareComputationsHelper(call.t, call.normal, call.ray))
    /\ UNCHANGED <<call, renderVars, refrVars, traceVars, cacheVars>>

CallLighting ==
    /\ ret = None
    /\ call.op = "lighting"
    /\ ret' = Some(Lighting(call.material, call.light, call.point, call.eyev,
                            call.normalv, call.in_shadow))
    /\ UNCHANGED <<call, renderVars, refrVars, traceVars, cacheVars>>

\* The calls of lighting: the default material in two colours, a light of two
\* intensities anywhere but at the point, the point at the origin or beside
\* it, eye and normal along the axes.  The calls of prepare_computations_helper:
\* a ray from a point of the grid along a vector that is not null, a time and
\* a normal that is not null.
LightingCalls ==
    LET Axes == {v \in Tuples : v.w = "Vector" /\ v.x * v.x + v.y * v.y + v.z * v.z = 1}
    IN  {c \in [op : {"lighting"},
                material : [color : {1, 2}, ambiant : {1}, diffuse : {9}, specular : {9},
                            shininess : {200}],
                light : [intensity : {1, 2}, position : {p \in Tuples : p.w = "Point"}],
                point : {NewPoint(0, 0, 0), NewPoint(0, 1, 0)},
                eyev : Axes, normalv : Axes, in_shadow : BOOLEAN] :
            c.light.position # c.point}
        \cup [op : {"prepare_computations_helper"}, t : Times,
              normal : {v \in Tuples : v.w = "Vector" /\ v # NewVector(0, 0, 0)},
              ray : [origin : {p \in Tuples : p.w = "Point"},
                     direction : {v \in Tuples : v.w = "Vector" /\ v # NewVector(0, 0, 0)}]]

\* Renders of scenes with a singular transform or a pattern: one band that is
\* short, one that is full, and two bands.
InitScene ==
    /\ CameraInit(1..MaxHsize, {1, BAND_SIZE, BAND_SIZE + 1},
                  {"none", "camera", "object", "pattern"})
    /\ WalkInit({<<[t |-> 1, object |-> 1]>>})
    /\ TraceInit({<<0, 0>>})
    /\ QueryInit({[op |-> "color_at", world |-> <<>>]})
    /\ CacheInit({}, 0)

SpecScene == InitScene /\ [][NextRender]_vars

\* The workers of a parallel render looking up inverses, from an empty cache.
InitCache ==
    /\ CameraInit({1}, {1}, {"none"})
    /\ WalkInit({<<[t |-> 1, object |-> 1]>>})
    /\ TraceInit({<<0, 0>>})
    /\ QueryInit({[op |-> "color_at", world |-> <<>>]})
    /\ CacheInit(1..MaxWorkers, MaxLookups)

SpecCache == InitCache /\ [][NextCache]_vars

SpecRefr == InitRefr /\ [][NextRefr]_vars

\* The lists intersect_world can hand over: retain(t > 0) may have dropped the
\* entry of an object the ray starts in, and a plane is crossed once, so an
\* object occurs once or twice.
InitRefrFiltered ==
    /\ CameraInit({1}, {1}, {"none"})
    /\ WalkInit({IntersectionList(s, tg) :
                    s \in UNION {{q \in [1..n -> Objects] :
                                    \A o \in Objects : Occurrences(q, o) <= 2} :
                                 n \in 1..(2 * MaxObjects)},
                    tg \in BOOLEAN})
    /\ TraceInit({<<0, 0>>})
    /\ QueryInit({[op |-> "color_at", world |-> <<>>]})
    /\ CacheInit({}, 0)

SpecRefrFiltered == InitRefrFiltered /\ [][NextRefr]_vars

SpecQuery == InitQuery /\ [][NextQuery]_vars

\* The recursion runs on one thread that keeps executing: weak fairness.
SpecTrace == InitTrace /\ [][NextTrace]_vars /\ WF_vars(NextTrace)

----------------------------------------------------------------------------
\* The algebra of tuples and matrices, and lighting: one call of one operation.
InitAlgebra ==
    /\ CameraInit({1}, {1}, {"none"})
    /\ WalkInit({<<[t |-> 1, object |-> 1]>>})
    /\ TraceInit({<<0, 0>>})
    /\ QueryInit(TupleCalls \cup MatrixCalls \cup NormalCalls \cup LightingCalls
                 \cup RasterCalls)
    /\ CacheInit({}, 0)

NextAlgebra ==
    \/ CallTupleBinary
    \/ CallTupleMul
    \/ CallMagnitude
    \/ CallNormalize
    \/ CallInverse
    \/ CallFluent
    \/ CallChain
    \/ CallNormalAt
    \/ CallLighting
    \/ CallRaster
    \/ CallCamera
    \/ CallPrepareComputationsHelper

SpecAlgebra == InitAlgebra /\ [][NextAlgebra]_vars

----------------------------------------------------------------------------
\* Claims about the renders (specification Spec).

\* The canvas position (x, y) of a canvas index (canvas.rs pos_from_index).
RowOfIndex(k) == k \div hsize

\* C2: under every scheduling of the band workers the parallel render
\* completes without aborting, and every canvas pixel is written exactly once,
\* by exactly one worker (never twice, and once when the render is done).
C2_ParRenderWritesEachPixelOnce ==
    /\ parState # "aborted"
    /\ \A i \in Bands : bandState[i] # "panicked"
    /\ \A k \in DOMAIN writes : Len(writes[k]) <= 1
    /\ parState = "done" => \A k \in DOMAIN writes : Len(writes[k]) = 1

\* C3: once both renders have ended, the parallel render has returned a canvas
\* and it is identical, pixel for pixel, to the canvas of the serial render.
C3_ParallelEqualsSerial ==
    (serialState = "done" /\ parState \in {"done", "aborted"})
        => (parState = "done" /\ image2 = image)

\* C4: the worker of band i computes and writes only pixels of rows r with
\* i*BAND_SIZE <= r < (i+1)*BAND_SIZE and r < vsize, and no canvas index is
\* written by two different workers.
C4_BandWorkerStaysInItsRows ==
    /\ \A c \in computed :
          /\ c[1] * BAND_SIZE <= c[3]
          /\ c[3] < (c[1] + 1) * BAND_SIZE
          /\ c[3] < vsize
    /\ \A k \in DOMAIN writes : \A n \in DOMAIN writes[k] :
          /\ writes[k][n] * BAND_SIZE <= RowOfIndex(k)
          /\ RowOfIndex(k) < (writes[k][n] + 1) * BAND_SIZE
          /\ RowOfIndex(k) < vsize
    /\ \A k \in DOMAIN writes : \A m, n \in DOMAIN writes[k] :
          writes[k][m] = writes[k][n]

----------------------------------------------------------------------------
\* Claims about prepare_computations_v2 (specification SpecRefr).

\* The objects the ray is inside after the first k intersections of xs: those
\* met an odd number of times.
InsideAfter(k) ==
    {o \in Objects : Cardinality({j \in 1..k : xs[j].object = o}) % 2 = 1}

LastMet(o, k) == CHOOSE j \in 1..k :
    xs[j].object = o /\ \A m \in (j + 1)..k : xs[m].object # o

\* The refractive index of the most recently entered and not yet exited object
\* after the first k intersections, 1.0 when there is none.
MediumAfter(k) ==
    IF InsideAfter(k) = {} THEN 10
    ELSE LET o == CHOOSE p \in InsideAfter(k) :
                     \A q \in InsideAfter(k) : LastMet(q, k) <= LastMet(p, k)
         IN  RefractiveIndex(o)

HitIndex == CHOOSE k \in DOMAIN xs : xs[k] = hit /\ \A j \in 1..(k - 1) : xs[j] # hit

EntryExitPairs == \A o \in Objects : Occurrences([k \in DOMAIN xs |-> xs[k].object], o) \in {0, 2}

NestedSpheres == [k \in DOMAIN xs |-> xs[k].object] = <<1, 2, 3, 2, 3, 1>>

ExpectedPairs ==
    <<<<10, 15>>, <<15, 20>>, <<20, 25>>, <<25, 25>>, <<25, 15>>, <<15, 10>>>>

\* C1: when the walk of prepare_computations_v2 over an entry/exit-paired list
\* has ended, n1 is the refractive index of the most recently entered and not
\* yet exited object just before the hit (1.0 if none) and n2 the same just
\* after the hit's object has been toggled; for the nested spheres A,B,C,B,C,A
\* the pairs are (1.0,1.5), (1.5,2.0), (2.0,2.5), (2.5,2.5), (2.5,1.5), (1.5,1.0).
C1_RefractionIndices ==
    (walkState = "done" /\ EntryExitPairs) =>
        /\ n1 = MediumAfter(HitIndex - 1)
        /\ n2 = MediumAfter(HitIndex)
        /\ NestedSpheres => <<n1, n2>> = ExpectedPairs[HitIndex]

\* C1 witness: the walk has ended for the fourth hit (B's exit, inside C) of the
\* nested spheres.
C1_Witness ==
    /\ walkState = "done"
    /\ NestedSpheres
    /\ hit = xs[4]
    /\ xs[3].t # xs[4].t
    /\ <<n1, n2>> = <<25, 25>>

----------------------------------------------------------------------------
\* Claims about the recursion of color_at (specification SpecTrace).

\* The k-th nested color_at call runs with depth depth0 - (k - 1), and there
\* are never more than depth0 + 1 of them.
NestingBounded ==
    /\ Len(stack) <= depth0 + 1
    /\ \A k \in DOMAIN stack : stack[k].remaining = depth0 - (k - 1)

\* C5: color_at(ray, d) terminates for every d >= 0 and every choice of what
\* the rays meet: each secondary ray calls color_at with depth exactly d - 1,
\* so the nesting never exceeds d + 1 levels (6 for the camera's depth 5).
C5_ColorAtTerminates == []NestingBounded /\ <>(traceState = "done")

\* C5 witness: mirrors facing each other at the camera's depth: six nested
\* color_at calls, each but the innermost waiting for its reflected ray.
C5_Witness ==
    /\ depth0 = MAX_RECURTION
    /\ Len(stack) = MAX_RECURTION + 1
    /\ \A k \in 1..MAX_RECURTION : stack[k].phase = "reflect_wait"

\* C6: reflected_color and refracted_color called with depth 0, or for a
\* material with reflective = 0 (transparency = 0), return BLACK without a
\* nested color_at call, and no call ever runs with a depth below zero.
C6_BlackWithoutSecondaryRay ==
    [][ /\ traceState = "running"
           => /\ ( /\ Top.phase = "reflected_color"
                   /\ (Top.remaining = 0 \/ Top.reflective = 0) )
                 => /\ Len(stack') = Len(stack)
                    /\ stack'[Len(stack)].phase = "refracted_color"
                    /\ stack'[Len(stack)].reflected = BLACK
              /\ ( /\ Top.phase = "refracted_color"
                   /\ (Top.remaining = 0 \/ Top.transparency = 0) )
                 => /\ Len(stack') = Len(stack)
                    /\ stack'[Len(stack)].phase = "combine"
                    /\ stack'[Len(stack)].refracted = BLACK
        /\ \A k \in DOMAIN stack' : stack'[k].remaining >= 0 ]_vars

\* C6 witness: refracted_color has returned BLACK at depth 0 for a fully
\* reflective and transparent material, reflected_color having done so before.
C6_Witness ==
    /\ traceState = "running"
    /\ depth0 > 0
    /\ Top.remaining = 0
    /\ Top.reflective = 1
    /\ Top.transparency = 1
    /\ Top.phase = "combine"
    /\ Top.reflected = BLACK
    /\ Top.refracted = BLACK

----------------------------------------------------------------------------
\* Claims about the queries (specification SpecQuery).

Returned(op) == call.op = op /\ ret # <<>>

\* C7: hit_intersections(xs) returns the intersection of xs with the least
\* non-negative t, whatever the order of xs, and None exactly when xs holds no
\* intersection with non-negative t (an intersection at t = 0 is a hit).
C7_HitIsLeastNonNegative ==
    Returned("hit_intersections") =>
        LET nonneg == {k \in DOMAIN call.xs : call.xs[k].t >= 0}
        IN  /\ (ret[1] = None) <=> (nonneg = {})
            /\ ret[1] # None =>
                 /\ \E k \in nonneg : call.xs[k] = ret[1][1]
                 /\ \A k \in nonneg : ret[1][1].t <= call.xs[k].t

\* The number of times object o gives t for the ray, and the number of times
\* the list r holds [t, o].
Produced(world, o, t) == Cardinality({j \in DOMAIN world[o].ts : world[o].ts[j] = t})

Held(r, o, t) == Cardinality({j \in DOMAIN r : r[j] = [t |-> t, object |-> o]})

\* C8: intersect_world returns exactly the intersections the objects produce
\* that have t > 0, multiplicity kept, by ascending t; intersections of equal t
\* keep the order of their objects in the world.
C8_IntersectWorldExactSorted ==
    Returned("intersect_world") =>
        LET r == ret[1]
        IN  /\ \A j \in DOMAIN r : r[j].object \in DOMAIN call.world
            /\ \A o \in DOMAIN call.world : \A t \in Times :
                  Held(r, o, t) = IF t > 0 THEN Produced(call.world, o, t) ELSE 0
            /\ \A i, j \in DOMAIN r : i < j =>
                  /\ r[i].t <= r[j].t
                  /\ r[i].t = r[j].t => r[i].object <= r[j].object

\* C8 witness: two objects meet the ray at the same positive t, one
\* intersection at t <= 0 is dropped.
C8_Witness ==
    /\ Returned("intersect_world")
    /\ Len(ret[1]) >= 3
    /\ \E i \in DOMAIN ret[1] : i < Len(ret[1]) /\ ret[1][i].t = ret[1][i + 1].t
                                /\ ret[1][i].object # ret[1][i + 1].object
    /\ \E o \in DOMAIN call.world : \E j \in DOMAIN call.world[o].ts :
          call.world[o].ts[j] <= 0

\* The positive t values of the world's intersections, and the first object
\* of the world that has an intersection at t.
PositiveTimes(world) ==
    {t \in Times : t > 0 /\ \E o \in DOMAIN world : Produced(world, o, t) > 0}

Nearest(world) == CHOOSE t \in PositiveTimes(world) : \A u \in PositiveTimes(world) : t <= u

FirstObjectAt(world, t) == CHOOSE o \in DOMAIN world :
    Produced(world, o, t) > 0 /\ \A q \in 1..(o - 1) : Produced(world, q, t) = 0

\* C9: is_shadowed_for_light is true if and only if the ray toward the light
\* has a positive-t intersection, the nearest one belongs to an object that
\* casts shadows and its t is strictly less than the distance to the light.
C9_ShadowedIffNearestCastsBeforeLight ==
    Returned("is_shadowed_for_light") =>
        ( ret[1] <=>
            /\ PositiveTimes(call.world) # {}
            /\ call.world[FirstObjectAt(call.world, Nearest(call.world))].casts
            /\ Nearest(call.world) < call.distance )

\* C9 witness: the nearest hit casts shadows but lies exactly at the light, an
\* object behind the point is ignored: not shadowed.
C9_Witness ==
    /\ Returned("is_shadowed_for_light")
    /\ ret[1] = FALSE
    /\ PositiveTimes(call.world) # {}
    /\ Nearest(call.world) = call.distance
    /\ call.world[FirstObjectAt(call.world, Nearest(call.world))].casts
    /\ \E o \in DOMAIN call.world : Produced(call.world, o, 0 - 1) > 0

\* C10: color_at returns BLACK when the ray has no intersection with positive
\* t; otherwise it shades the intersection with the smallest positive t.
C10_ColorAtShadesNearest ==
    Returned("color_at") =>
        IF PositiveTimes(call.world) = {}
        THEN ret[1].color = BLACK /\ ret[1].shaded = None
        ELSE /\ ret[1].shaded # None
             /\ ret[1].shaded[1].t = Nearest(call.world)
             /\ Produced(call.world, ret[1].shaded[1].object, Nearest(call.world)) > 0

\* C10 witness: one object behind the ray origin, another met twice in front:
\* the nearer of the two intersections in front is shaded.
C10_Witness ==
    /\ Returned("color_at")
    /\ Len(call.world) = 2
    /\ call.world[1].ts = <<0 - 1, 0>>
    /\ call.world[2].ts = <<1, 2>>
    /\ ret[1].shaded = Some([t |-> 1, object |-> 2])

----------------------------------------------------------------------------
\* Claims about the tuples (specification SpecAlgebra).

IsTupleOfKind(r, w) == (~IsPanic(r)) /\ r.w = w

Rejected(r) == IsPanic(r) /\ r.panic # ""

\* C11: addition and subtraction follow the point/vector algebra: point - point
\* is a vector, point + vector, vector + point and point - vector are points,
\* vector + vector and vector - vector are vectors; point + point and
\* vector - point abort with a message and return no tuple.
C11_PointVectorAlgebra ==
    (Returned("add") \/ Returned("sub")) =>
        LET a == call.a.w
            b == call.b.w
            r == ret[1]
        IN  /\ (call.op = "add" /\ a = "Point" /\ b = "Point") => Rejected(r)
            /\ (call.op = "add" /\ a = "Point" /\ b = "Vector") => IsTupleOfKind(r, "Point")
            /\ (call.op = "add" /\ a = "Vector" /\ b = "Point") => IsTupleOfKind(r, "Point")
            /\ (call.op = "add" /\ a = "Vector" /\ b = "Vector") => IsTupleOfKind(r, "Vector")
            /\ (call.op = "sub" /\ a = "Point" /\ b = "Point") => IsTupleOfKind(r, "Vector")
            /\ (call.op = "sub" /\ a = "Point" /\ b = "Vector") => IsTupleOfKind(r, "Point")
            /\ (call.op = "sub" /\ a = "Vector" /\ b = "Vector") => IsTupleOfKind(r, "Vector")
            /\ (call.op = "sub" /\ a = "Vector" /\ b = "Point") => Rejected(r)

C11_Witness ==
    /\ Returned("add")
    /\ call.a = NewPoint(1, 0, 0 - 1)
    /\ call.b = NewPoint(0, 1, 1)
    /\ Rejected(ret[1])

HasPointOperand ==
    \/ call.a.w = "Point"
    \/ call.op \in {"dot_product", "cross_product"} /\ call.b.w = "Point"

\* C12 as stated: scalar multiplication, dot product, cross product, magnitude
\* and normalize are rejected when an operand is a point.
C12_VectorOnlyOperations ==
    \A op \in {"mul", "dot_product", "cross_product", "magnitude", "normalize"} :
        (Returned(op) /\ HasPointOperand) => Rejected(ret[1])

\* C12 as amended: dot product, cross product, magnitude and normalize are
\* rejected when an operand is a point and return a value otherwise; scalar
\* multiplication is defined for both kinds, scales x, y and z and keeps the
\* kind.
C12_VectorOnlyExceptScaling ==
    /\ \A op \in {"dot_product", "cross_product", "magnitude", "normalize"} :
          Returned(op) => (HasPointOperand <=> Rejected(ret[1]))
    /\ Returned("mul") =>
          ret[1] = [x |-> call.a.x * call.scalar, y |-> call.a.y * call.scalar,
                    z |-> call.a.z * call.scalar, w |-> call.a.w]

C12_Witness ==
    /\ Returned("magnitude")
    /\ call.a = NewPoint(1, 0, 0 - 1)
    /\ Rejected(ret[1])

----------------------------------------------------------------------------
\* Claims about the matrices (specification SpecAlgebra).

\* The determinant by the permutation expansion, independent of the cofactors.
PermsOf ==
    [n \in 2..4 |->
        {p \in [0..(n - 1) -> 0..(n - 1)] :
            \A i, j \in 0..(n - 1) : i # j => p[i] # p[j]}]

SignOf(p) ==
    IF Cardinality({ij \in (DOMAIN p) \X (DOMAIN p) : ij[1] < ij[2] /\ p[ij[1]] > p[ij[2]]}) % 2 = 0
    THEN 1 ELSE 0 - 1

RECURSIVE ProductTo(_, _)
ProductTo(n, f) == IF n = 0 THEN 1 ELSE ProductTo(n - 1, f) * f[n - 1]

RECURSIVE SumOver(_, _)
SumOver(set, f) ==
    IF set = {} THEN 0
    ELSE LET e == CHOOSE x \in set : TRUE
         IN  f[e] + SumOver(set \ {e}, f)

PermutationDeterminant(m) ==
    SumOver(PermsOf[m.size],
            [p \in PermsOf[m.size] |->
                SignOf(p) * ProductTo(m.size, [i \in 0..(m.size - 1) |-> Element(m, i, p[i])])])

\* C13: inverse returns the error NotInversible exactly when the determinant is
\* 0, and otherwise Ok(M') with M * M' the identity; is_invertible is true
\* exactly when the determinant is not 0; inverse never aborts.
C13_InverseIffDeterminantNonZero ==
    Returned("inverse") =>
        LET m == call.m
            r == ret[1]
            d == PermutationDeterminant(m)
        IN  /\ ~IsPanic(r)
            /\ (r = [err |-> "NotInversible"]) <=> (d = 0)
            /\ IsInvertible(m) <=> (d # 0)
            /\ Determinant(m) = d
            /\ (d # 0) =>
                  /\ DOMAIN r = {"ok"}
                  /\ r.ok.den # 0
                  /\ \A row, col \in 0..(m.size - 1) :
                        Element(MatMul(m, NewMatrixWithData(r.ok.size, r.ok.matrix)), row, col)
                            = (IF row = col THEN r.ok.den ELSE 0)

\* C15: for every fluent transform method and every matrix m, m.op(args) is
\* create_op(args) * m, and a chain m.op1(..).op2(..) is
\* create_op2(..) * create_op1(..) * m.
C15_FluentIsLeftMultiplication ==
    /\ Returned("fluent") => ret[1] = MatMul(Create(call.f), call.m)
    /\ Returned("chain") =>
          ret[1] = MatMul(Create(call.g), MatMul(Create(call.f), call.m))

----------------------------------------------------------------------------
\* Claims about the container (specification SpecRefrFiltered).

Holds(c, o) == \E k \in DOMAIN c : c[k] = o

\* C19: processing an intersection of the walk, the chosen hit included,
\* changes the size of the container by exactly one (plus one when the object
\* was not in the container, minus one when it was), and at every step the
\* container holds each object at most once.
C19_ContainerChangesByOne ==
    /\ [][walkPos' = walkPos + 1 =>
            Len(container') =
                (IF Holds(container, xs[walkPos].object)
                 THEN Len(container) - 1 ELSE Len(container) + 1)]_vars
    /\ [](\A j, k \in DOMAIN container : j # k => container[j] # container[k])

C19_Witness ==
    /\ walkState = "done"
    /\ xs = IntersectionList(<<1, 2, 2, 1>>, FALSE)
    /\ hit = xs[3]
    /\ walkPos = 4
    /\ container = <<1>>

----------------------------------------------------------------------------
\* Claims about normal_at (specification SpecAlgebra).

\* The first three coordinates of m * (x, y, z, w), as a vector.
ApplyTo(m, t, w) ==
    LET v == <<t.x, t.y, t.z, w>>
        sum(row) == SumTo(4, [col \in 0..3 |-> Element(m, row, col) * v[col + 1]])
    IN  NewVector(sum(0), sum(1), sum(2))

\* The four steps: local_point = inverse(T) * world_point, the local normal of
\* the kind, world_normal = transpose(inverse(T)) * local_normal with w = 0
\* (to be normalized).
FourStepNormal(shape, transform, point) ==
    LET inv == Unwrap(Inverse(transform))
        local_point == ApplyTo(inv, point, 1)
        local_normal == IF shape = "Plane" THEN NewVector(0, 1, 0) ELSE local_point
    IN  ApplyTo(Transpose(inv), local_normal, 0)

\* The world point lies on the surface of the shape.
OnSurface(shape, transform, point) ==
    LET local_point == ApplyTo(Unwrap(Inverse(transform)), point, 1)
        square == local_point.x * local_point.x + local_point.y * local_point.y
                    + local_point.z * local_point.z
    IN  CASE shape = "Sphere" -> square = 1
          [] shape = "Plane" -> local_point.y = 0
          [] OTHER -> square # 0

\* The tuple r, of coordinates (x, y, z) / sqrt(over), has length one and the
\* direction and sense of the vector e.
IsUnitAlong(r, e) ==
    LET over == IF "over" \in DOMAIN r THEN r.over ELSE 1
    IN  /\ over > 0
        /\ r.x * r.x + r.y * r.y + r.z * r.z = over
        /\ r.y * e.z - r.z * e.y = 0
        /\ r.z * e.x - r.x * e.z = 0
        /\ r.x * e.y - r.y * e.x = 0
        /\ r.x * e.x + r.y * e.y + r.z * e.z > 0

\* C16: for every kind of shape and every invertible transform, normal_at of a
\* point of the surface is transpose(inverse(T)) * local_normal taken at
\* inverse(T) * world_point, with w forced to 0 and normalized: a vector of
\* unit length.
C16_NormalAtFourSteps ==
    (Returned("normal_at") /\ OnSurface(call.shape, call.transform, call.point)) =>
        /\ ~IsPanic(ret[1])
        /\ ret[1].w = "Vector"
        /\ IsUnitAlong(ret[1], FourStepNormal(call.shape, call.transform, call.point))

----------------------------------------------------------------------------
\* Claims about shade_hit (specification SpecQuery).

----------------------------------------------------------------------------
\* The canvas a render has returned to its caller, if any.
ReturnedCanvases == (IF serialState = "done" THEN {image} ELSE {})
            \cup (IF parState = "done" THEN {image2} ELSE {})

C18_RenderLeavesWorldAndCamera ==
    [][scene' = scene /\ hsize' = hsize /\ vsize' = vsize]_vars

\* A copy of the ShapeTest holds the ray of a pixel; the object of the world
\* still holds none.
C18_Witness ==
    /\ scratch # <<>>
    /\ scratch[1].saved_ray # 0
    /\ scene.objects[1].saved_ray = 0
    /\ serialState = "done"


----------------------------------------------------------------------------
\* r is what inverting m must give: an error when m is singular (its
\* determinant by the permutation formula is zero), else the matrix whose
\* product with m is the identity (here times the common denominator).
IsInverseOf(r, m) ==
    IF PermutationDeterminant(m) = 0
    THEN r = [err |-> "NotInversible"]
    ELSE /\ "ok" \in DOMAIN r
         /\ r.ok.den # 0
         /\ LET val(row, col) == IF row = col THEN r.ok.den ELSE 0
            IN  MatMul(m, NewMatrixWithData(4, r.ok.matrix))
                    = MatrixOf(4, [rc \in Cells(4) |-> val(rc[1], rc[2])])

\* What M.inverse() returns for each matrix that is looked up.
InverseOfEach == [m \in CacheMatrices |-> Inverse(m)]

\* What M.inverse() returns is the inverse of M, or an error for a singular M.
InverseOfEachIsInverse == \A m \in CacheMatrices : IsInverseOf(InverseOfEach[m], m)

----------------------------------------------------------------------------
\* Comparisons of two ratios.
RatioLeq(a, b) == a[1] * b[2] <= b[1] * a[2]

\* The square root of a ratio in lowest terms: a ratio when numerator and
\* denominator are squares, else the exact real number.
SqrtOfRatio(a) ==
    IF \E p \in 0..a[1], q \in 1..a[2] : p * p = a[1] /\ q * q = a[2]
    THEN CHOOSE r \in (0..a[1]) \X (1..a[2]) : r[1] * r[1] = a[1] /\ r[2] * r[2] = a[2]
    ELSE Sqrt(a)

\* sin2_t of the call, and whether total internal reflection applies to it.
CallSin2T == Sin2T(call.n1, call.n2, call.cos)

\* C21: schlick returns 1 when n1 > n2 and sin2_t > 1; else it returns
\* r0 + (1 - r0) * (1 - cos)^5 with r0 = ((n1 - n2)/(n1 + n2))^2, where the cos
\* is the square root of 1 - sin2_t when n1 > n2 and dot(eyev, normalv)
\* otherwise; the result lies in [0, 1].
C21_SchlickAsSpecified ==
    Returned("refraction") =>
        LET r == ret[1].reflectance
            s == CallSin2T
        IN  IF call.n1 > call.n2 /\ s[1] > s[2]
            THEN r = [value |-> 1]
            ELSE /\ "r0" \in DOMAIN r
                 /\ r.r0 = Ratio((call.n1 - call.n2) * (call.n1 - call.n2),
                                 (call.n1 + call.n2) * (call.n1 + call.n2))
                 /\ r.cos = IF call.n1 > call.n2
                            THEN SqrtOfRatio(Ratio(s[2] - s[1], s[2]))
                            ELSE call.cos
                 /\ RatioLeq(<<0, 1>>, r.r0) /\ RatioLeq(r.r0, <<1, 1>>)
                 /\ RatioLeq(<<0, 1>>, r.cos) /\ RatioLeq(r.cos, <<1, 1>>)

\* C29: whenever refracted_color returns BLACK because sin2_t > 1, schlick
\* returns exactly 1 on the same shading record.
C29_TotalInternalReflectionAgrees ==
    (/\ Returned("refraction")
     /\ call.transparency # 0 /\ call.remaining # 0
     /\ CallSin2T[1] > CallSin2T[2]
     /\ ret[1].refracted = BLACK)
        => ret[1].reflectance = [value |-> 1]

\* A transparent surface met under total internal reflection, where the
\* refracted ray would have had a colour.
C29_Witness ==
    /\ Returned("refraction")
    /\ call.transparency = 1 /\ call.remaining = 1 /\ call.traced # BLACK
    /\ CallSin2T[1] > CallSin2T[2]
    /\ ret[1].refracted = BLACK
    /\ ret[1].reflectance = [value |-> 1]

\* C28: in shade_hit the reflected and refracted colours are added once per
\* light: with L lights the result is the sum of the L surface terms plus L
\* times the (Schlick-weighted or plain) reflected and refracted terms, and
\* with no light it is BLACK whatever the material.
C28_SecondaryColoursOncePerLight ==
    Returned("shade_hit") =>
        LET lights_n == Len(call.surfaces)
            direct == SumTo(lights_n, [k \in 0..(lights_n - 1) |-> call.surfaces[k + 1]])
        IN  /\ lights_n = 0 => ret[1] = 10 * BLACK
            /\ ret[1] - 10 * direct
                 = lights_n * Contribution(call.material, BLACK, call.reflected,
                                           call.refracted, call.reflectance)

\* Two lights on a reflective, opaque surface: the reflected colour is in the
\* result twice.
C28_Witness ==
    /\ Returned("shade_hit")
    /\ call.material = [reflective |-> 1, transparency |-> 0]
    /\ call.surfaces = <<1, 1>>
    /\ call.reflected = 2
    /\ ret[1] = 60

----------------------------------------------------------------------------
\* Claims about lighting (specification SpecAlgebra).

\* The colour is the ambient term alone: base colour times light intensity
\* times ambiant, the diffuse and specular terms being black.
AmbientAlone(c) ==
    /\ c.ambiant = call.material.color * call.light.intensity * call.material.ambiant
    /\ c.diffuse.times = BLACK
    /\ c.specular.times = BLACK

\* dot(lightv, normal) < 0, lightv pointing from the point to the light.
LightBehindSurface ==
    (call.light.position.x - call.point.x) * call.normalv.x
    + (call.light.position.y - call.point.y) * call.normalv.y
    + (call.light.position.z - call.point.z) * call.normalv.z < 0

\* C22: lighting returns the ambient term alone when in_shadow is true,
\* whatever eye, normal and light position, and also when the point is not in
\* shadow but the light is on the far side of the surface.
C22_ShadowOrFarSideIsAmbient ==
    (Returned("lighting") /\ (call.in_shadow \/ LightBehindSurface))
        => AmbientAlone(ret[1])

\* In shadow although the light faces the surface and the eye; and the same
\* call out of shadow has a diffuse term.
C22_Witness ==
    /\ Returned("lighting")
    /\ call.in_shadow
    /\ ~LightBehindSurface
    /\ AmbientAlone(ret[1])
    /\ Lighting(call.material, call.light, call.point, call.eyev, call.normalv,
                FALSE).diffuse.times # BLACK

----------------------------------------------------------------------------
\* Claims about colours and canvases (specification SpecAlgebra).

\* 255 * clamp(c, 0, 1), truncated, for a component c in tenths.
Clamped255(c) == (255 * (IF c < 0 THEN 0 ELSE IF c > 10 THEN 10 ELSE c)) \div 10

\* C23: normalise maps each component c to the truncation of
\* 255 * clamp(c, 0, 1) (0 for c <= 0, 255 for c >= 1, never wrapping), and
\* buffer_from_canvas gives width * height words, the word of each pixel in
\* row-major order being (r << 16) | (g << 8) | b with a zero high byte.
C23_NormaliseClampsAndBufferPacks ==
    /\ Returned("normalise") =>
          \A k \in 1..3 :
              /\ ret[1][k] = Clamped255(call.color[k])
              /\ call.color[k] <= 0 => ret[1][k] = 0
              /\ call.color[k] >= 10 => ret[1][k] = 255
    /\ Returned("buffer_from_canvas") =>
          /\ DOMAIN ret[1] = 0..(call.canvas.width * call.canvas.height - 1)
          /\ \A k \in DOMAIN ret[1] :
                /\ ret[1][k] < 16777216
                /\ ret[1][k] \div 65536 = Clamped255(call.canvas.pixels[k][1])
                /\ (ret[1][k] \div 256) % 256 = Clamped255(call.canvas.pixels[k][2])
                /\ ret[1][k] % 256 = Clamped255(call.canvas.pixels[k][3])

\* A colour with a component below 0, one inside and one above 1.
C23_Witness ==
    /\ Returned("normalise")
    /\ call.color = <<0 - 1, 5, 26>>
    /\ ret[1] = <<0, 127, 255>>

\* C24: new_canvas(w, h) has exactly w * h pixels, all black;
\* set_pixel_color(x, y, c) with x < w and y < h sets the pixel of index
\* y * w + x and leaves the other pixels, the width and the height as they
\* were; pos_from_index(index_from_pos(x, y, w)) = (x, y) for x < w.
C24_CanvasBufferAndIndexing ==
    /\ Returned("new_canvas") =>
          /\ ret[1].width = call.width /\ ret[1].height = call.height
          /\ DOMAIN ret[1].pixels = 0..(call.width * call.height - 1)
          /\ \A k \in DOMAIN ret[1].pixels : ret[1].pixels[k] = BLACK
    /\ Returned("set_pixel_color") =>
          /\ ret[1].width = call.canvas.width /\ ret[1].height = call.canvas.height
          /\ DOMAIN ret[1].pixels = DOMAIN call.canvas.pixels
          /\ \A k \in DOMAIN ret[1].pixels :
                ret[1].pixels[k] = IF k = call.y * call.canvas.width + call.x
                                   THEN call.color ELSE call.canvas.pixels[k]
    /\ Returned("pos_from_index") => ret[1] = <<call.x, call.y>>

\* The last pixel of the first row of a canvas wider than high is set.
C24_Witness ==
    /\ Returned("set_pixel_color")
    /\ call.canvas.width = 2 /\ call.canvas.height = 1
    /\ call.x = 1 /\ call.y = 0
    /\ call.canvas.pixels[1] = BLACK
    /\ ret[1].pixels[1] = call.color

\* a = b for two ratios that need not be in lowest terms.
RatioEq(a, b) == a[1] * b[2] = b[1] * a[2]

\* C25: after Camera::new and any with_size, with_fov, with_transformation and
\* set_transform, with half_view = tan(fov / 2): half_width = half_view and
\* half_height = half_view * vsize / hsize when hsize >= vsize, else
\* half_width = half_view * hsize / vsize and half_height = half_view;
\* pixel_size = 2 * half_width / hsize = 2 * half_height / vsize; and the
\* camera of the transposed size has the same pixel_size.
C25_CameraRatiosConsistent ==
    Returned("camera") =>
        LET c == ret[1]
            half_view == c.field_of_view
        IN  /\ IF c.hsize >= c.vsize
               THEN /\ RatioEq(c.half_width, half_view)
                    /\ RatioEq(c.half_height, <<half_view[1] * c.vsize, half_view[2] * c.hsize>>)
               ELSE /\ RatioEq(c.half_width, <<half_view[1] * c.hsize, half_view[2] * c.vsize>>)
                    /\ RatioEq(c.half_height, half_view)
            /\ RatioEq(c.pixel_size, <<2 * c.half_width[1], c.half_width[2] * c.hsize>>)
            /\ RatioEq(c.pixel_size, <<2 * c.half_height[1], c.half_height[2] * c.vsize>>)
            /\ RatioEq(c.pixel_size, CameraNew(c.vsize, c.hsize, c.field_of_view).pixel_size)

\* An upright camera made wide by with_size after its field of view and its
\* transformation were changed.
C25_Witness ==
    /\ Returned("camera")
    /\ call.hsize < call.vsize
    /\ Len(call.steps) = 2
    /\ call.steps[1].name = "with_fov" /\ call.steps[1].fov # call.fov
    /\ call.steps[2].name = "with_size" /\ call.steps[2].hsize > call.steps[2].vsize
    /\ ret[1].hsize = call.steps[2].hsize
    /\ ret[1].half_width = call.steps[1].fov

----------------------------------------------------------------------------
\* The transform moves the origin.
HasTranslation(m) == \E row \in 0..2 : Element(m, row, 3) # 0

\* C27: for a sphere whose transform contains a translation, normal_at of a
\* point of its surface does not abort in Matrix * Tuple and returns a vector.
C27_SphereNormalNeverAborts ==
    (/\ Returned("normal_at")
     /\ call.shape = "Sphere"
     /\ HasTranslation(call.transform)
     /\ OnSurface(call.shape, call.transform, call.point))
        => (~IsPanic(ret[1]) /\ ret[1].w = "Vector")

----------------------------------------------------------------------------
\* dot(a, b) of two vectors.
Dot(a, b) == a.x * b.x + a.y * b.y + a.z * b.z

\* C30: every record of prepare_computations_helper has
\* dot(normalv, eyev) >= 0; inside is true exactly when the geometric normal
\* points away from the eye, and then normalv is its negation; over_point and
\* under_point are the point shifted along normalv after the flip, over_point
\* towards the eye's side and under_point to the other side.
C30_NormalFacesEye ==
    Returned("prepare_computations_helper") =>
        LET c == ret[1]
        IN  /\ Dot(c.normalv, c.eyev) >= 0
            /\ c.inside <=> Dot(call.normal, c.eyev) < 0
            /\ c.normalv = IF c.inside THEN TupleMul(call.normal, 0 - 1) ELSE call.normal
            /\ c.over_point = [at |-> c.point, shift |-> c.normalv]
            /\ c.under_point = [at |-> c.point, shift |-> TupleMul(c.normalv, 0 - 1)]
            /\ Dot(c.over_point.shift, c.eyev) >= 0
            /\ Dot(c.under_point.shift, c.eyev) <= 0

\* A hit from inside: the normal was turned, and the offsets follow it.
C30_Witness ==
    /\ Returned("prepare_computations_helper")
    /\ ret[1].inside
    /\ ret[1].normalv # call.normal
    /\ ret[1].over_point.shift = ret[1].normalv
    /\ Dot(ret[1].normalv, ret[1].eyev) > 0

----------------------------------------------------------------------------
\* prepare_computations_v2 run to its end over a list, as <<n1, n2>>: the walk
\* of WalkStep from an empty container.
RECURSIVE IndicesFrom(_, _, _, _)
IndicesFrom(list, h, k, c) ==
    IF k > Len(list) THEN <<0, 0>>
    ELSE IF list[k] = h
         THEN <<ContainerIndex(c), ContainerIndex(Toggle(c, list[k].object))>>
         ELSE IndicesFrom(list, h, k + 1, Toggle(c, list[k].object))

\* The ray of the walk starts inside A alone: A's exit is the nearest
\* intersection color_at shades, A's entry (t < 0) is not in the list, and
\* every other object is crossed twice or not at all.
StartsInside(A) ==
    /\ hit = xs[1]
    /\ hit.object = A
    /\ \A o \in Objects :
          Cardinality({k \in DOMAIN xs : xs[k].object = o}) \in (IF o = A THEN {1} ELSE {0, 2})

\* The list before retain(t > 0): A's entry comes first.
WithEntry(A) == <<[t |-> 0 - 1, object |-> A]>> \o xs

\* C26: when color_at traces a ray that starts inside a transparent object A,
\* the record of the exit hit has n1 = A's refractive index and n2 = the index
\* outside A (1.0, A not being nested), the pair prepare_computations_v2 yields
\* on the full list with A's entry at t < 0.
C26_ExitFromInsideIndices ==
    \A A \in Objects :
        (walkState = "done" /\ StartsInside(A)) =>
            /\ n1 = RefractiveIndex(A)
            /\ n2 = 10
            /\ <<n1, n2>> = IndicesFrom(WithEntry(A), hit, 1, <<>>)

=============================================================================
